---- MODULE Spec2Model ----
(***************************************************************************)
(* A model of the MyBlogs static site client: the hash router              *)
(* (scripts/router.js), the search ranker and the application wiring       *)
(* (scripts/search.js), the markdown loader (markdown.js) and the path     *)
(* resolution of the navigation component.                                 *)
(*                                                                         *)
(* Strings are sequences of one-character strings, so that slicing,        *)
(* splitting, joining and lowercasing are computed, not assumed.           *)
(***************************************************************************)
EXTENDS Integers, Sequences, FiniteSets, TLC

VARIABLES
    lastOp,         \* the operation that produced this state
    \* Router
    fragment,       \* the URL fragment of window.location, without its '#'
    currentRoute,   \* Router.currentRoute: NoRoute or the last parsed route
    navArgs,        \* the (skill, topic, article) last given to buildPath
    \* Navigation
    manifest,       \* the manifest navigation.init() loaded: a list of skills
    lookup,         \* the (skill, topic, article) slugs asked of getArticlePath
    articlePath,    \* what getArticlePath returned
    \* App, MarkdownRenderer
    phase,          \* App.init: "manifest" while navigation.init() is awaited
    onRouteChange,  \* whether router.onRouteChange is installed
    hashchanges,    \* hashchange events queued by the browser, not yet dispatched
    container,      \* what MarkdownRenderer.container shows
    currentPath,    \* MarkdownRenderer.currentPath
    fetches,        \* the article fetches in flight: [load, path]
    loadCount,      \* the number of fetches load() has started
    tocSource,      \* the load whose content the table of contents lists, 0: none
    sidebarActive,  \* #sidebarLeft has class 'active'
    overlayActive,  \* #overlay has class 'active'
    bodyLocked,     \* document.body.style.overflow = 'hidden'
    calls,          \* the calls the last step made, in order
    \* Search
    searchArticles, \* Search.articles: the flat index setArticles was given
    inputValue,     \* the text in the search input
    query,          \* the argument of the last call of search
    found,          \* what the last call of search returned
    items,          \* the result items rendered in the results container
    isOpen,         \* Search.isOpen
    activeIndex,    \* Search.activeIndex
    focus,          \* where document.activeElement is
    blurTimers,     \* the 200 ms timers handleBlur started, not yet fired
    \* App: theme and desktop sidebar
    theme,          \* the data-theme attribute of the document element
    storedTheme,    \* localStorage 'theme'
    prefersDark,    \* matchMedia('(prefers-color-scheme: dark)').matches
    collapsed,      \* #sidebarLeft has class 'collapsed'
    wide,           \* window.innerWidth > 900
    \* TableOfContents
    tocHeadings,    \* TableOfContents.headings
    tocLinks,       \* TableOfContents.links
    tocActiveIndex, \* TableOfContents.activeIndex
    tocView,        \* what TableOfContents.container shows
    tocFrame,       \* the handles of the animation-frame requests pending
    tocContent,     \* the content element last given to generate
    scrollTimeout,  \* TableOfContents.scrollTimeout: a handle, 0 for null
    scrollY,        \* window.scrollY
    tocAttached,    \* whether that content element is still in the document
    tocListening,   \* whether handleScroll listens to the scroll event
    tocRequests,    \* requestAnimationFrame calls since the last frame
    tocEvals,       \* updateActiveHeading evaluations the last frame ran
    \* build.js
    contentDir,     \* the content/ directory generateManifest scans
    built           \* what generateManifest returned, or that it threw

routerVars == <<fragment, currentRoute, navArgs>>

navigationVars == <<manifest, lookup, articlePath>>

rendererVars == <<container, currentPath, fetches, loadCount, tocSource>>

menuVars == <<sidebarActive, overlayActive, bodyLocked>>

appVars == <<phase, onRouteChange, hashchanges, rendererVars, menuVars, calls>>

searchVars ==
    <<searchArticles, inputValue, query, found, items, isOpen, activeIndex>>

panelVars == <<focus, blurTimers>>

themeVars == <<theme, storedTheme, prefersDark, collapsed, wide>>

tocVars ==
    <<tocHeadings, tocLinks, tocActiveIndex, tocView, tocFrame, tocContent,
      scrollTimeout, scrollY, tocAttached, tocListening, tocRequests,
      tocEvals>>

buildVars == <<contentDir, built>>

vars ==
    <<lastOp, routerVars, navigationVars, appVars, searchVars, panelVars,
      themeVars, tocVars, buildVars>>

\* what each specification leaves alone
outsideHash ==
    <<navigationVars, appVars, searchVars, panelVars, themeVars, tocVars,
      buildVars>>

outsideNavigation ==
    <<routerVars, appVars, searchVars, panelVars, themeVars, tocVars,
      buildVars>>

outsideApp ==
    <<navArgs, lookup, articlePath, searchVars, panelVars, themeVars, tocVars,
      buildVars>>

outsideSearch ==
    <<routerVars, navigationVars, appVars, panelVars, themeVars, tocVars,
      buildVars>>

(***************************************************************************)
(* Strings                                                                 *)
(***************************************************************************)

\* JavaScript's null / undefined, as a value no string of the model equals.
Null == <<"null">>

\* "truthy" for a string-or-null value: neither null nor the empty string.
Truthy(s) == s # Null /\ s # <<>>

\* All strings over the alphabet `chars` of length 0..n.
StringsUpTo(chars, n) == UNION {[1..k -> chars] : k \in 0..n}

\* String.prototype.slice(1)
Slice1(s) == IF Len(s) <= 1 THEN <<>> ELSE SubSeq(s, 2, Len(s))

\* String.prototype.startsWith
StartsWith(s, p) == Len(p) <= Len(s) /\ SubSeq(s, 1, Len(p)) = p

\* String.prototype.includes
Includes(s, p) ==
    \E i \in 0..(Len(s) - Len(p)) : SubSeq(s, i + 1, i + Len(p)) = p

\* String.prototype.split(sep) for a set of one-character separators; with
\* `runs` a run of separators is one separator (the regular expression \s+).
RECURSIVE SplitFrom(_, _, _, _, _)
SplitFrom(s, seps, runs, i, cur) ==
    IF i > Len(s) THEN <<cur>>
    ELSE IF s[i] \in seps
         THEN IF runs /\ i > 1 /\ s[i - 1] \in seps
              THEN SplitFrom(s, seps, runs, i + 1, cur)
              ELSE <<cur>> \o SplitFrom(s, seps, runs, i + 1, <<>>)
         ELSE SplitFrom(s, seps, runs, i + 1, Append(cur, s[i]))

Split(s, seps, runs) == SplitFrom(s, seps, runs, 1, <<>>)

\* Array.prototype.filter(Boolean) on an array of strings
FilterBoolean(parts) == SelectSeq(parts, LAMBDA p : p # <<>>)

\* Array.prototype.join(sep)
RECURSIVE Join(_, _)
Join(parts, sep) ==
    IF parts = <<>> THEN <<>>
    ELSE IF Len(parts) = 1 THEN parts[1]
    ELSE parts[1] \o sep \o Join(Tail(parts), sep)

\* parts[i] || null, with i counted from 1
ElementOrNull(parts, i) ==
    IF i <= Len(parts) /\ parts[i] # <<>> THEN parts[i] ELSE Null

(***************************************************************************)
(* Router (scripts/router.js)                                              *)
(***************************************************************************)

\* The getter of window.location.hash: '' for an empty fragment, else '#'
\* followed by the fragment.
LocationHash(frag) == IF frag = <<>> THEN <<>> ELSE <<"#">> \o frag

\* The setter of window.location.hash: one leading '#' is dropped.
SetLocationHash(value) ==
    IF value # <<>> /\ value[1] = "#" THEN Tail(value) ELSE value

\* Router.parseHash, of the value window.location.hash returns
parseHashNoFilter(locHash) ==
    LET sliced == Slice1(locHash)
        hash   == IF sliced = <<>> THEN <<"/">> ELSE sliced
        parts  == Split(hash, {"/"}, FALSE)
    IN  [skill   |-> ElementOrNull(parts, 1),
         topic   |-> ElementOrNull(parts, 2),
         article |-> ElementOrNull(parts, 3),
         path    |-> hash,
         parts   |-> parts]

parseHash(locHash) ==
    LET sliced == Slice1(locHash)
        hash   == IF sliced = <<>> THEN <<"/">> ELSE sliced
        parts  == FilterBoolean(Split(hash, {"/"}, FALSE))
    IN  [skill   |-> ElementOrNull(parts, 1),
         topic   |-> ElementOrNull(parts, 2),
         article |-> ElementOrNull(parts, 3),
         path    |-> hash,
         parts   |-> parts]

\* Router.buildPath
buildPathSwapped(skill, topic, article) ==
    Join(<< <<>> >>
         \o (IF Truthy(skill) THEN <<skill>> ELSE <<>>)
         \o (IF Truthy(article) THEN <<article>> ELSE <<>>)
         \o (IF Truthy(topic) THEN <<topic>> ELSE <<>>),
         <<"/">>)

buildPath(skill, topic, article) ==
    Join(<< <<>> >>
         \o (IF Truthy(skill) THEN <<skill>> ELSE <<>>)
         \o (IF Truthy(topic) THEN <<topic>> ELSE <<>>)
         \o (IF Truthy(article) THEN <<article>> ELSE <<>>),
         <<"/">>)

\* Router.navigate: the fragment the assignment to window.location.hash leaves
navigateTarget(path) ==
    SetLocationHash(IF StartsWith(path, <<"#">>) THEN path ELSE <<"#">> \o path)

\* navArgs before any call of navigate
NoArgs == <<>>

\* Router.currentRoute as the constructor leaves it: null, no route
NoRoute ==
    [skill |-> Null, topic |-> Null, article |-> Null, path |-> Null,
     parts |-> <<>>]

\* a component that takes no part in a specification stays as constructed
RouterIdle == fragment = <<>> /\ currentRoute = NoRoute /\ navArgs = NoArgs

NavigationIdle == manifest = <<>> /\ lookup = <<>> /\ articlePath = Null

\* MarkdownRenderer.container before anything is rendered
EmptyContainer == [kind |-> "empty", load |-> 0, path |-> Null]

AppIdle ==
    /\ phase = "manifest"
    /\ onRouteChange = FALSE
    /\ hashchanges = 0
    /\ container = EmptyContainer
    /\ currentPath = Null
    /\ fetches = {}
    /\ loadCount = 0
    /\ tocSource = 0
    /\ sidebarActive = FALSE
    /\ overlayActive = FALSE
    /\ bodyLocked = FALSE
    /\ calls = <<>>

\* Search as its constructor leaves it
SearchIdle ==
    /\ searchArticles = <<>>
    /\ inputValue = <<>>
    /\ query = <<>>
    /\ found = <<>>
    /\ items = <<>>
    /\ isOpen = FALSE
    /\ activeIndex = -1

\* the search input and the page around it before any focus moves
PanelIdle == focus = "body" /\ blurTimers = 0

\* the document before App.init has run loadTheme
ThemeIdle ==
    /\ theme = Null
    /\ storedTheme = Null
    /\ prefersDark = FALSE
    /\ collapsed = FALSE
    /\ wide = TRUE

\* a content element with its children in document order, and the null
\* that renderError hands to onRender
ContentElement(children) == [present |-> TRUE, children |-> children]

NoContent == [present |-> FALSE, children |-> <<>>]

\* TableOfContents as its constructor and init leave it
TocIdle ==
    /\ tocHeadings = <<>>
    /\ tocLinks = <<>>
    /\ tocActiveIndex = -1
    /\ tocView = "blank"
    /\ tocFrame = {}
    /\ tocContent = NoContent
    /\ scrollTimeout = 0
    /\ scrollY = 0
    /\ tocAttached = FALSE
    /\ tocListening = TRUE
    /\ tocRequests = 0
    /\ tocEvals = 0

\* what generateManifest has returned before build.js has run: nothing
NotBuilt == [ran |-> FALSE, threw |-> FALSE, skills |-> <<>>]

\* build.js not run
BuildIdle == contentDir = <<>> /\ built = NotBuilt

\* the components the earlier specifications take no part in
RestIdle == PanelIdle /\ ThemeIdle /\ TocIdle /\ BuildIdle

(***************************************************************************)
(* Manifest (build.js, printed in README.md) and Navigation.getArticlePath *)
(***************************************************************************)

\* String.prototype.toLowerCase, on the letters the model uses
LowerChar(c) ==
    CASE c = "A" -> "a"
      [] c = "B" -> "b"
      [] c = "C" -> "c"
      [] OTHER -> c

toLowerCase(s) == [i \in 1..Len(s) |-> LowerChar(s[i])]

\* the whitespace class \s, on the characters the model uses
Whitespace == {" ", "\t"}

DotMd == <<".", "m", "d">>

\* .replace(/\.md$/, '')
StripMd(name) ==
    IF Len(name) >= 3 /\ SubSeq(name, Len(name) - 2, Len(name)) = DotMd
    THEN SubSeq(name, 1, Len(name) - 3)
    ELSE name

\* [a-z0-9-], on the characters the model uses
SlugSafeChars == {"a", "b", "c", "0", "1", "-"}

\* toSlug: strip .md, lowercase, whitespace runs to '-', drop the rest
toSlug(name) ==
    LET lower  == toLowerCase(StripMd(name))
        dashed == Join(Split(lower, Whitespace, TRUE), <<"-">>)
    IN  SelectSeq(dashed, LAMBDA c : c \in SlugSafeChars)

\* the article entry scanTopic pushes for the file `item`
ArticleEntry(item) == [slug |-> toSlug(item), file |-> StripMd(item)]

\* the topic entry scanTopic returns for the folder `topicName`
TopicEntry(topicName, articles) ==
    [slug |-> toSlug(topicName), folder |-> topicName, articles |-> articles]

\* the skill entry scanSkill returns for the folder `skillName`
SkillEntry(skillName, topics) ==
    [slug |-> toSlug(skillName), folder |-> skillName, topics |-> topics]

\* Array.prototype.find by slug: the position of the first entry with that
\* slug, 0 when there is none
FindSlug(entries, slug) ==
    IF \E i \in 1..Len(entries) : entries[i].slug = slug
    THEN CHOOSE i \in 1..Len(entries) :
             /\ entries[i].slug = slug
             /\ \A j \in 1..(i - 1) : entries[j].slug # slug
    ELSE 0

ContentDir == <<"c", "o", "n", "t", "e", "n", "t">>

ContentPath(skillFolder, topicFolder, file) ==
    Join(<<ContentDir, skillFolder, topicFolder, file \o DotMd>>, <<"/">>)

\* Navigation.getArticlePath(skill, topic, article): the content path of the
\* article the three slugs name, Null (the not-found signal) otherwise
getArticlePathBySlugs(skills, skill, topic, article) ==
    IF Null \in {skill, topic, article} THEN Null
    ELSE ContentPath(skill, topic, article)

getArticlePath(skills, skill, topic, article) ==
    LET i == FindSlug(skills, skill) IN
    IF i = 0 THEN Null ELSE
    LET topics == skills[i].topics
        j == FindSlug(topics, topic) IN
    IF j = 0 THEN Null ELSE
    LET articles == topics[j].articles
        k == FindSlug(articles, article) IN
    IF k = 0 THEN Null ELSE
    ContentPath(skills[i].folder, topics[j].folder, articles[k].file)

(***************************************************************************)
(* SpecNavigation: getArticlePath on every manifest build.js can write for *)
(* a small content directory whose slugs are unique within their parent.   *)
(***************************************************************************)

MaxSiblings == 2

\* folder names and article files of the content directory
FolderNames == {<<"A">>, <<"b", " ", "c">>}

FileNames == {<<"A">> \o DotMd, <<"b", "_", "c">> \o DotMd}

\* the lists of 0..MaxSiblings entries over `kinds` with distinct slugs
DistinctSlugLists(kinds) ==
    {l \in UNION {[1..n -> kinds] : n \in 0..MaxSiblings} :
        \A i, j \in 1..Len(l) : i # j => l[i].slug # l[j].slug}

ArticleLists ==
    DistinctSlugLists({ArticleEntry(f) : f \in FileNames}) \ {<<>>}

\* scanSkill keeps only topics with an article, generateManifest only skills
\* with a topic
TopicLists ==
    DistinctSlugLists({TopicEntry(f, as) : f \in FolderNames, as \in ArticleLists})
        \ {<<>>}

Manifests ==
    DistinctSlugLists({SkillEntry(f, ts) : f \in FolderNames, ts \in TopicLists})

\* the slugs a route may carry: the slugs of the names, and a folder name
\* that is not its own slug
LookupSlugs == {toSlug(f) : f \in FolderNames \cup FileNames} \cup {<<"A">>}

InitNavigation ==
    /\ manifest \in Manifests
    /\ lookup \in LookupSlugs \X LookupSlugs \X LookupSlugs
    /\ articlePath = Null
    /\ lastOp = "init"
    /\ RouterIdle
    /\ AppIdle
    /\ SearchIdle
    /\ RestIdle

GetArticlePath ==
    /\ lastOp = "init"
    /\ articlePath' = getArticlePath(manifest, lookup[1], lookup[2], lookup[3])
    /\ lastOp' = "getArticlePath"
    /\ UNCHANGED <<manifest, lookup, outsideNavigation>>

NextNavigation == GetArticlePath

SpecNavigation == InitNavigation /\ [][NextNavigation]_vars

\* the (skill, topic, article) positions in the manifest the lookup names
LookupMatches ==
    {p \in (1..MaxSiblings) \X (1..MaxSiblings) \X (1..MaxSiblings) :
        /\ p[1] <= Len(manifest)
        /\ manifest[p[1]].slug = lookup[1]
        /\ p[2] <= Len(manifest[p[1]].topics)
        /\ manifest[p[1]].topics[p[2]].slug = lookup[2]
        /\ p[3] <= Len(manifest[p[1]].topics[p[2]].articles)
        /\ manifest[p[1]].topics[p[2]].articles[p[3]].slug = lookup[3]}

\* content/<skill folder>/<topic folder>/<article file>.md, written out
ExpectedPath(p) ==
    ContentDir \o <<"/">> \o manifest[p[1]].folder
        \o <<"/">> \o manifest[p[1]].topics[p[2]].folder
        \o <<"/">> \o manifest[p[1]].topics[p[2]].articles[p[3]].file
        \o <<".", "m", "d">>

\* C2: when the manifest has a skill, topic and article with the three
\* slugs, getArticlePath returns content/<skill.folder>/<topic.folder>/
\* <article.file>.md with the stored folder and file names; when the lookup
\* fails at any level it returns the not-found signal.
C2_ArticlePathExact ==
    lastOp = "getArticlePath" =>
        /\ \A p \in LookupMatches : articlePath = ExpectedPath(p)
        /\ (LookupMatches = {} => articlePath = Null)

\* a lookup resolved through the second skill to names that differ from
\* the slugs
C2_Witness ==
    /\ lastOp = "getArticlePath"
    /\ \E p \in LookupMatches : p[1] = 2 /\ p[2] = 2
    /\ articlePath # Null
    /\ articlePath # ContentPath(lookup[1], lookup[2], lookup[3])

(***************************************************************************)
(* SpecHash: the router on its own. The page is opened at any fragment,    *)
(* code calls navigate(buildPath(..)), and handleRoute parses whatever the *)
(* fragment then is.                                                       *)
(***************************************************************************)

MaxHashLen == 8

HashChars == {"/", "a", "b"}

Fragments == StringsUpTo(HashChars, MaxHashLen)

\* slug-safe strings: non-empty, of [a-z0-9-]
Slugs == {<<"a">>, <<"b", "-">>, <<"-", "1">>}

InitHash ==
    /\ fragment \in Fragments
    /\ currentRoute = NoRoute
    /\ lastOp = "open"
    /\ navArgs = NoArgs
    /\ NavigationIdle
    /\ AppIdle
    /\ SearchIdle
    /\ RestIdle

\* Router.handleRoute with no onRouteChange callback installed
HandleRouteAlone ==
    /\ currentRoute' = parseHash(LocationHash(fragment))
    /\ lastOp' = "handleRoute"
    /\ UNCHANGED <<fragment, navArgs, outsideHash>>

\* router.navigate(router.buildPath(skill, topic, article)), called on the
\* page as it was opened (each behaviour holds at most one navigation)
NavigateBuilt(skill, topic, article) ==
    /\ lastOp = "open"
    /\ fragment' = navigateTarget(buildPath(skill, topic, article))
    /\ navArgs' = <<skill, topic, article>>
    /\ lastOp' = "navigate"
    /\ UNCHANGED <<currentRoute, outsideHash>>

NextHash ==
    \/ HandleRouteAlone
    \/ \E s, t, a \in Slugs \cup {Null} : NavigateBuilt(s, t, a)

SpecHash == InitHash /\ [][NextHash]_vars

(***************************************************************************)
(* The segments of a fragment, by position: a segment is a maximal run of  *)
(* characters other than '/'.                                              *)
(***************************************************************************)

SegmentStarts(f) ==
    {i \in 1..Len(f) : f[i] # "/" /\ (i = 1 \/ f[i - 1] = "/")}

SegmentEnd(f, i) ==
    CHOOSE j \in i..Len(f) :
        /\ \A k \in i..j : f[k] # "/"
        /\ (j = Len(f) \/ f[j + 1] = "/")

\* the n-th non-empty segment of f, Null when there are fewer than n
NthSegment(f, n) ==
    IF Cardinality(SegmentStarts(f)) < n THEN Null
    ELSE LET i == CHOOSE x \in SegmentStarts(f) :
                      Cardinality({y \in SegmentStarts(f) : y < x}) = n - 1
         IN  SubSeq(f, i, SegmentEnd(f, i))

\* C4: whenever handleRoute has parsed the fragment, skill, topic and article
\* are the 1st, 2nd and 3rd non-empty '/'-separated segments of the fragment
\* (null for a missing one), whatever follows the third segment; the empty
\* fragment and '/' give three nulls.
C4_ParseHashPositional ==
    lastOp = "handleRoute" =>
        /\ currentRoute.skill = NthSegment(fragment, 1)
        /\ currentRoute.topic = NthSegment(fragment, 2)
        /\ currentRoute.article = NthSegment(fragment, 3)
        /\ (fragment \in {<<>>, <<"/">>} =>
               /\ currentRoute.skill = Null
               /\ currentRoute.topic = Null
               /\ currentRoute.article = Null)

\* a fragment with an empty segment and a fourth segment has been parsed
C4_Witness ==
    /\ lastOp = "handleRoute"
    /\ navArgs = NoArgs
    /\ Cardinality(SegmentStarts(fragment)) = 4
    /\ Includes(fragment, <<"/", "/">>)
    /\ currentRoute.article # Null

\* the arguments are non-null up to some position and null from there on
TrailingNullsOnly(args) ==
    \A i \in 1..2 : args[i] = Null => args[i + 1] = Null

\* C5: after navigate(buildPath(s, t, a)) with slug-safe s, t, a (or nulls
\* in trailing positions only), parsing the fragment gives back skill = s,
\* topic = t and article = a, null where the argument was null.
C5_BuildParseInverse ==
    lastOp = "handleRoute" /\ navArgs # NoArgs /\ TrailingNullsOnly(navArgs) =>
        /\ currentRoute.skill = navArgs[1]
        /\ currentRoute.topic = navArgs[2]
        /\ currentRoute.article = navArgs[3]

\* a full triple, and a triple with a trailing null, went through the round trip
C5_Witness ==
    /\ lastOp = "handleRoute"
    /\ navArgs # NoArgs
    /\ navArgs[1] # Null /\ navArgs[2] # Null /\ navArgs[2] # navArgs[1]
    /\ currentRoute.topic = navArgs[2]

(***************************************************************************)
(* Spec: the application. The page is opened at some fragment; App.init    *)
(* awaits the manifest and then handles the initial route; the user moves  *)
(* between fragments; hashchange events are dispatched one at a time; the  *)
(* fetches load() started complete in any order.                           *)
(***************************************************************************)

MaxLoads == 2

MaxPendingEvents == 1

\* the manifest the site serves: skill folder 'A', topic folder 'b c', with
\* the articles A.md and b_c.md
AppManifest ==
    <<SkillEntry(<<"A">>,
        <<TopicEntry(<<"b", " ", "c">>,
            <<ArticleEntry(<<"A">> \o DotMd),
              ArticleEntry(<<"b", "_", "c">> \o DotMd)>>)>>)>>

\* Navigation.getAllArticles: the flat index, in manifest order
FlatArticles(skills) ==
    {[skillSlug |-> skills[i].slug,
      topicSlug |-> skills[i].topics[j].slug,
      slug      |-> skills[i].topics[j].articles[k].slug] :
        <<i, j, k>> \in
            {p \in (1..MaxSiblings) \X (1..MaxSiblings) \X (1..MaxSiblings) :
                /\ p[1] <= Len(skills)
                /\ p[2] <= Len(skills[p[1]].topics)
                /\ p[3] <= Len(skills[p[1]].topics[p[2]].articles)}}

\* the fragments of the links the page offers, of an article that does not
\* exist and of partial paths
AppFragments ==
    {buildPath(a.skillSlug, a.topicSlug, a.slug) : a \in FlatArticles(AppManifest)}
    \cup {<<>>, <<"/">>, <<"/", "a">>, <<"/", "a", "/", "b", "-", "c", "/", "c">>}

Call(op, arg) == [op |-> op, arg |-> arg]

\* App.closeMobileMenu
closeMobileMenuKeepsLock ==
    /\ sidebarActive' = FALSE
    /\ overlayActive' = FALSE
    /\ UNCHANGED bodyLocked

closeMobileMenu ==
    /\ sidebarActive' = FALSE
    /\ overlayActive' = FALSE
    /\ bodyLocked' = FALSE

\* markdown.onRender as App.init wires it: toc.generate(contentElement);
\* `source` is the load whose content node is handed over, 0 for null
onRenderUnwired(source) == UNCHANGED tocSource

onRender(source) == tocSource' = source

\* MarkdownRenderer.renderWelcome: the container is replaced, then
\* onRender(null)
renderWelcome ==
    /\ container' = [kind |-> "welcome", load |-> 0, path |-> Null]
    /\ onRender(0)

\* MarkdownRenderer.renderError(path): the container is replaced, then
\* onRender(null)
renderError(load, path) ==
    /\ container' = [kind |-> "error", load |-> load, path |-> path]
    /\ onRender(0)

\* MarkdownRenderer.render: the container is replaced, then
\* onRender(contentDiv)
render(load, path) ==
    /\ container' = [kind |-> "article", load |-> load, path |-> path]
    /\ onRender(load)

\* MarkdownRenderer.load(path) up to its first await: the fetch is started
\* and the loading placeholder shown
loadStart(path) ==
    /\ currentPath' = path
    /\ container' = [kind |-> "loading", load |-> loadCount + 1, path |-> path]
    /\ loadCount' = loadCount + 1
    /\ fetches' = fetches \cup {[load |-> loadCount + 1, path |-> path]}
    /\ UNCHANGED tocSource

\* the branch App.handleRouteChange takes for a route
RouteDecisionErrorOnPartial(skills, route) ==
    LET resolved ==
            IF Truthy(route.skill) /\ Truthy(route.topic) /\ Truthy(route.article)
            THEN getArticlePath(skills, route.skill, route.topic, route.article)
            ELSE Null
    IN  IF Truthy(resolved) THEN Call("load", resolved)
        ELSE Call("renderError", Null)

RouteDecision(skills, route) ==
    IF Truthy(route.skill) /\ Truthy(route.topic) /\ Truthy(route.article)
    THEN LET resolved ==
                 getArticlePath(skills, route.skill, route.topic, route.article)
         IN  IF Truthy(resolved) THEN Call("load", resolved)
             ELSE Call("renderError", Null)
    ELSE Call("renderWelcome", Null)

\* App.handleRouteChange(route), with the manifest `skills` loaded
handleRouteChange(route, skills) ==
    LET d == RouteDecision(skills, route) IN
    CASE d.op = "load" ->
            /\ loadStart(d.arg)
            /\ closeMobileMenu
      [] d.op = "renderError" ->
            /\ renderError(0, Null)
            /\ UNCHANGED <<currentPath, fetches, loadCount, menuVars>>
      [] OTHER ->
            /\ renderWelcome
            /\ UNCHANGED <<currentPath, fetches, loadCount, menuVars>>

\* what a branch of App.handleRouteChange calls: load(path) shows the
\* loading placeholder and notifies nobody; renderWelcome and renderError
\* end with onRender(null)
branchCalls(d) ==
    IF d.op = "load" THEN <<d>> ELSE <<d, Call("onRender", Null)>>

\* Router.handleRoute, called from `first` while the fragment is `frag`,
\* router.onRouteChange is `installed` and the manifest is `skills`
handleRoute(first, frag, installed, skills) ==
    LET route == parseHash(LocationHash(frag)) IN
    /\ currentRoute' = route
    /\ IF installed
       THEN /\ RouteDecision(skills, route).op = "load" => loadCount < MaxLoads
            /\ handleRouteChange(route, skills)
            /\ calls' = <<Call(first, Null), Call("handleRoute", Null),
                          Call("onRouteChange", route.path)>>
                         \o branchCalls(RouteDecision(skills, route))
       ELSE /\ calls' = <<Call(first, Null), Call("handleRoute", Null)>>
            /\ UNCHANGED <<rendererVars, menuVars>>

Init ==
    /\ fragment \in AppFragments
    /\ currentRoute = NoRoute
    /\ navArgs = NoArgs
    /\ manifest = <<>>
    /\ lookup = <<>>
    /\ articlePath = Null
    /\ AppIdle
    /\ SearchIdle
    /\ RestIdle
    /\ lastOp = "open"

\* the rest of App.init once navigation.init() has settled: the callback is
\* installed and the initial route handled
ManifestLoaded ==
    /\ phase = "manifest"
    /\ phase' = "ready"
    /\ manifest' = AppManifest
    /\ onRouteChange' = TRUE
    /\ handleRoute("init", fragment, TRUE, AppManifest)
    /\ lastOp' = "initialRoute"
    /\ UNCHANGED <<fragment, hashchanges, outsideApp>>

\* the user follows a link, edits the address or goes back: the fragment
\* changes and the browser queues a hashchange event
UserNavigates(f) ==
    /\ f # fragment
    /\ hashchanges < MaxPendingEvents
    /\ fragment' = f
    /\ hashchanges' = hashchanges + 1
    /\ calls' = <<>>
    /\ lastOp' = "userNavigates"
    /\ UNCHANGED <<currentRoute, manifest, phase, onRouteChange, rendererVars,
                   menuVars, outsideApp>>

\* Router.navigate(path), as the click on a search result calls it with the
\* built path of an article of the flat index
RouterNavigateSync(path) ==
    /\ phase = "ready"
    /\ navigateTarget(path) # fragment
    /\ fragment' = navigateTarget(path)
    /\ handleRoute("navigate", navigateTarget(path), onRouteChange, manifest)
    /\ lastOp' = "navigate"
    /\ UNCHANGED <<manifest, phase, onRouteChange, hashchanges, outsideApp>>

RouterNavigate(path) ==
    /\ phase = "ready"
    /\ hashchanges < MaxPendingEvents
    /\ fragment' = navigateTarget(path)
    /\ hashchanges' = IF fragment' # fragment THEN hashchanges + 1 ELSE hashchanges
    /\ calls' = <<Call("navigate", path)>>
    /\ lastOp' = "navigate"
    /\ UNCHANGED <<currentRoute, manifest, phase, onRouteChange, rendererVars,
                   menuVars, outsideApp>>

\* the browser dispatches a queued hashchange event to the router's listener
HashChangeAlwaysHandled ==
    /\ hashchanges > 0
    /\ hashchanges' = hashchanges - 1
    /\ handleRoute("hashchange", fragment, TRUE, manifest)
    /\ lastOp' = "hashchange"
    /\ UNCHANGED <<fragment, manifest, phase, onRouteChange, outsideApp>>

HashChange ==
    /\ hashchanges > 0
    /\ hashchanges' = hashchanges - 1
    /\ handleRoute("hashchange", fragment, onRouteChange, manifest)
    /\ lastOp' = "hashchange"
    /\ UNCHANGED <<fragment, manifest, phase, onRouteChange, outsideApp>>

\* how MarkdownRenderer.load ends once its fetch has settled, `ok` telling a
\* response with a success status from a rejection or another status: what
\* the container shows and how the promise load returned settles; the
\* catch block turns every failure into renderError
loadSettledNoCatch(ok) ==
    IF ok THEN [shows |-> "article", promise |-> "fulfilled"]
    ELSE [shows |-> "loading", promise |-> "rejected"]

loadSettled(ok) ==
    IF ok THEN [shows |-> "article", promise |-> "fulfilled"]
    ELSE [shows |-> "error", promise |-> "fulfilled"]

\* MarkdownRenderer.load after its awaits: the fetch of `f` settles; a
\* response that is ok is rendered, anything else ends in renderError
FetchSettles(f, ok) ==
    LET end == loadSettled(ok) IN
    /\ f \in fetches
    /\ fetches' = fetches \ {f}
    /\ CASE end.shows = "article" -> render(f.load, f.path)
         [] end.shows = "error" -> renderError(f.load, f.path)
         [] OTHER -> UNCHANGED <<container, tocSource>>
    /\ calls' = <<Call("fetchSettled", f.path)>>
                 \o (CASE end.shows = "article" ->
                              <<Call("render", f.path),
                                Call("onRender", f.path)>>
                       [] end.shows = "error" ->
                              <<Call("renderError", f.path),
                                Call("onRender", Null)>>
                       [] OTHER -> <<>>)
                 \o <<Call(end.promise, f.path)>>
    /\ lastOp' = IF ok THEN "fetchSettled" ELSE "fetchFailed"
    /\ UNCHANGED <<fragment, currentRoute, manifest, phase, onRouteChange,
                   hashchanges, currentPath, loadCount, menuVars, outsideApp>>

\* App.toggleMobileMenu
ToggleMobileMenu ==
    /\ phase = "ready"
    /\ sidebarActive' = ~sidebarActive
    /\ overlayActive' = ~overlayActive
    /\ bodyLocked' = sidebarActive'
    /\ calls' = <<Call("toggleMobileMenu", Null)>>
    /\ lastOp' = "toggleMobileMenu"
    /\ UNCHANGED <<fragment, currentRoute, manifest, phase, onRouteChange,
                   hashchanges, rendererVars, outsideApp>>

\* the id of a heading every article has, as toc.generate assigned it
TocHeadingIds == {<<"c">>}

\* a click on the link of heading `id` in the table of contents:
\* TableOfContents.scrollToHeading(id). The heading is looked up in the
\* document, so the click does nothing unless the article whose headings
\* the table lists is still in the container; the page is scrolled and
\* history.pushState puts '#id' in the address, which fires no hashchange
TocLinkClick(id) ==
    /\ tocSource # 0
    /\ container.kind = "article"
    /\ container.load = tocSource
    /\ fragment' = id
    /\ calls' = <<Call("scrollToHeading", id), Call("pushState", id)>>
    /\ lastOp' = "tocLink"
    /\ UNCHANGED <<currentRoute, manifest, phase, onRouteChange, hashchanges,
                   rendererVars, menuVars, outsideApp>>

Next ==
    \/ ManifestLoaded
    \/ \E f \in AppFragments : UserNavigates(f)
    \/ \E a \in FlatArticles(AppManifest) :
           RouterNavigate(buildPath(a.skillSlug, a.topicSlug, a.slug))
    \/ HashChange
    \/ \E f \in fetches, ok \in BOOLEAN : FetchSettles(f, ok)
    \/ ToggleMobileMenu
    \/ \E id \in TocHeadingIds : TocLinkClick(id)

Spec == Init /\ [][Next]_vars

\* C1: whatever order the fetches settle in, what the container shows and
\* what the table of contents lists never comes from a load older than the
\* most recently started one: a stale completion overwrites neither.
C1_LatestLoadWins ==
    /\ container.load \in {0, loadCount}
    /\ tocSource \in {0, loadCount}

\* the three segments of a route are all present
CompleteRoute(route) ==
    route.skill # Null /\ route.topic # Null /\ route.article # Null

\* C3: a step that hands a route to App.handleRouteChange renders the
\* welcome state and starts no fetch when a segment is null; starts exactly
\* one fetch, of the path navigation resolved, when all three are present
\* and resolve; renders the error state and starts no fetch when all three
\* are present and do not resolve.
C3_RouteDispatch ==
    [][(lastOp' \in {"hashchange", "initialRoute"} /\ onRouteChange') =>
          LET route == currentRoute'
              resolved ==
                  IF CompleteRoute(route)
                  THEN getArticlePath(manifest', route.skill, route.topic,
                                      route.article)
                  ELSE Null
          IN  /\ ~CompleteRoute(route) =>
                    /\ container'.kind = "welcome"
                    /\ fetches' = fetches /\ loadCount' = loadCount
              /\ CompleteRoute(route) /\ resolved # Null =>
                    /\ loadCount' = loadCount + 1
                    /\ fetches' = fetches \cup
                           {[load |-> loadCount + 1, path |-> resolved]}
                    /\ container'.kind = "loading"
              /\ CompleteRoute(route) /\ resolved = Null =>
                    /\ container'.kind = "error"
                    /\ fetches' = fetches /\ loadCount' = loadCount
      ]_vars

\* a complete route that does not resolve was handled while a fetch was in
\* flight
C3_Witness ==
    /\ lastOp = "hashchange"
    /\ onRouteChange
    /\ CompleteRoute(currentRoute)
    /\ container.kind = "error"
    /\ fetches # {}

CallsOf(log) == {log[i].op : i \in DOMAIN log}

\* C6: a step of Router.navigate changes the fragment only: it calls neither
\* handleRoute nor the onRouteChange callback and leaves currentRoute and
\* what is rendered as they were; the callback runs only in the dispatch of
\* a hashchange event or in the one initial handleRoute call of App.init.
C6_NavigateIsAsynchronous ==
    [][/\ lastOp' = "navigate" =>
             /\ currentRoute' = currentRoute
             /\ CallsOf(calls') \cap {"handleRoute", "onRouteChange"} = {}
             /\ rendererVars' = rendererVars
       /\ "onRouteChange" \in CallsOf(calls') =>
             \/ calls'[1].op = "hashchange" /\ hashchanges > 0
             \/ calls'[1].op = "init" /\ phase = "manifest"
      ]_vars

\* navigate has changed the fragment, the event is queued and the route
\* the router holds is still the old one
C6_Witness ==
    /\ lastOp = "navigate"
    /\ hashchanges > 0
    /\ currentRoute # NoRoute
    /\ currentRoute # parseHash(LocationHash(fragment))

\* C15: a failed article load is contained: when the fetch of load(path)
\* rejects or answers without a success status, the promise load returned
\* is fulfilled, not rejected, the container shows the error placeholder,
\* and the fragment, router.currentRoute, the queued events, the manifest
\* and the mobile menu are what they were.
C15_FailedLoadContained ==
    [][lastOp' = "fetchFailed" =>
          /\ calls'[Len(calls')].op = "fulfilled"
          /\ "rejected" \notin CallsOf(calls')
          /\ container'.kind = "error"
          /\ fragment' = fragment
          /\ currentRoute' = currentRoute
          /\ hashchanges' = hashchanges
          /\ manifest' = manifest
          /\ menuVars' = menuVars
      ]_vars

\* the fetch of the article the route names has failed and the error
\* placeholder is shown under the route unchanged
C15_Witness ==
    /\ lastOp = "fetchFailed"
    /\ container.kind = "error"
    /\ CompleteRoute(currentRoute)
    /\ currentRoute = parseHash(LocationHash(fragment))

\* the render methods of MarkdownRenderer that end with onRender
RenderOps == {"render", "renderWelcome", "renderError"}

Positions(log, ops) == {i \in DOMAIN log : log[i].op \in ops}

\* C24: every completed render notifies the table of contents exactly
\* once, right after the container holds the new content: render hands
\* onRender the content it rendered, renderWelcome and renderError hand it
\* null; after the step the table of contents lists the headings of the
\* content the container shows, none for the welcome and error states.
\* onRender is called by nothing else.
C24_RenderNotifiesToc ==
    [][LET rendered == Positions(calls', RenderOps)
           notified == Positions(calls', {"onRender"})
       IN  /\ rendered = {} => notified = {}
           /\ rendered # {} =>
                 /\ Cardinality(rendered) = 1
                 /\ \A i \in rendered :
                        /\ notified = {i + 1}
                        /\ calls'[i + 1].arg =
                               IF calls'[i].op = "render" THEN calls'[i].arg
                               ELSE Null
                        /\ container'.kind =
                               CASE calls'[i].op = "render" -> "article"
                                 [] calls'[i].op = "renderError" -> "error"
                                 [] OTHER -> "welcome"
                 /\ tocSource' = IF container'.kind = "article"
                                 THEN container'.load ELSE 0
      ]_vars

\* an article has been rendered over a table of contents that listed
\* nothing, and the table now lists that article's content
C24_Witness ==
    /\ lastOp = "fetchSettled"
    /\ container.kind = "article"
    /\ "onRender" \in CallsOf(calls)
    /\ tocSource = container.load
    /\ tocSource # 0

\* C26: no route is handled before the manifest is loaded: while
\* navigation.init() is pending App.handleRouteChange is not called and
\* nothing is rendered or fetched; a hashchange event dispatched then only
\* records currentRoute. The step in which init settles handles the initial
\* route once, with the fragment of that moment, and no later step is an
\* initial handling.
C26_NoRouteBeforeManifest ==
    [][LET route == parseHash(LocationHash(fragment)) IN
       /\ phase' = "manifest" =>
             /\ "onRouteChange" \notin CallsOf(calls')
             /\ rendererVars' = rendererVars
             /\ menuVars' = menuVars
       /\ lastOp' = "hashchange" /\ phase = "manifest" =>
             /\ phase' = "manifest"
             /\ currentRoute' = route
       /\ phase = "manifest" /\ phase' = "ready" =>
             /\ fragment' = fragment
             /\ currentRoute' = route
             /\ Cardinality(Positions(calls', {"onRouteChange"})) = 1
             /\ calls'[1].op = "init"
             /\ calls'[3] = Call("onRouteChange", route.path)
             /\ calls'[4] = RouteDecision(manifest', route)
       /\ phase = "ready" =>
             /\ phase' = "ready"
             /\ "init" \notin CallsOf(calls')
      ]_vars

\* a hashchange event was dispatched while the manifest was pending: the
\* router holds the route of an article and nothing has been rendered
C26_Witness ==
    /\ phase = "manifest"
    /\ lastOp = "hashchange"
    /\ CompleteRoute(currentRoute)
    /\ currentRoute = parseHash(LocationHash(fragment))
    /\ container.kind = "empty"
    /\ loadCount = 0

\* C25: the fragment identifies what is displayed: whenever an article is
\* displayed, parseHash of the current fragment yields the slugs of that
\* article and equals router.currentRoute, so that a reload shows the same
\* article. Stated for the states in which no hashchange event is queued
\* and no fetch is in flight, where the display has caught up with the
\* fragment.
C25_FragmentIdentifiesArticle ==
    (container.kind = "article" /\ hashchanges = 0 /\ fetches = {}) =>
        LET route == parseHash(LocationHash(fragment)) IN
        /\ route = currentRoute
        /\ CompleteRoute(route)
        /\ getArticlePath(manifest, route.skill, route.topic, route.article)
               = container.path

(***************************************************************************)
(* Search (scripts/search.js)                                              *)
(***************************************************************************)

\* .slice(0, 10)
MaxResults == 10

\* String.prototype.trim
RECURSIVE TrimLeft(_)
TrimLeft(s) ==
    IF s # <<>> /\ Head(s) \in Whitespace THEN TrimLeft(Tail(s)) ELSE s

RECURSIVE TrimRight(_)
TrimRight(s) ==
    IF s # <<>> /\ s[Len(s)] \in Whitespace
    THEN TrimRight(SubSeq(s, 1, Len(s) - 1))
    ELSE s

Trim(s) == TrimRight(TrimLeft(s))

\* query.split(/\s+/).filter(Boolean)
QueryTerms(q) == FilterBoolean(Split(q, Whitespace, TRUE))

\* what one term adds to the score: the body of terms.forEach
termScoreNoPrefixBonus(titleLower, term) ==
    IF Includes(titleLower, term) THEN 10 ELSE 0

termScore(titleLower, term) ==
    IF Includes(titleLower, term)
    THEN IF StartsWith(titleLower, term) THEN 10 + 5 ELSE 10
    ELSE 0

\* terms.forEach(..): the score after the terms, starting from `score`
RECURSIVE forEachTerm(_, _, _)
forEachTerm(titleLower, terms, score) ==
    IF terms = <<>> THEN score
    ELSE forEachTerm(titleLower, Tail(terms),
                     score + termScore(titleLower, Head(terms)))

\* the score the map callback of search computes for an article
articleScoreWholeQuery(article, q) ==
    (IF Includes(toLowerCase(article.title), q) THEN 10 ELSE 0)
    + (IF Includes(toLowerCase(article.skill), q) THEN 3 ELSE 0)
    + (IF Includes(toLowerCase(article.topic), q) THEN 2 ELSE 0)

articleScore(article, q) ==
    LET afterTitle == forEachTerm(toLowerCase(article.title), QueryTerms(q), 0)
        afterSkill == IF Includes(toLowerCase(article.skill), q)
                      THEN afterTitle + 3 ELSE afterTitle
    IN  IF Includes(toLowerCase(article.topic), q)
        THEN afterSkill + 2 ELSE afterSkill

\* { ...article, score }: a new object with the fields of the article and
\* the score
WithScore(article, score) == [score |-> score] @@ article

\* Array.prototype.sort((a, b) => b.score - a.score), a stable sort: an
\* entry goes behind every entry that does not compare after it
InsertByScoreBeforeEqual(sorted, x) ==
    LET ahead == SelectSeq(sorted, LAMBDA y : y.score > x.score)
        behind == SelectSeq(sorted, LAMBDA y : y.score <= x.score)
    IN  ahead \o <<x>> \o behind

InsertByScore(sorted, x) ==
    LET ahead == SelectSeq(sorted, LAMBDA y : y.score >= x.score)
        behind == SelectSeq(sorted, LAMBDA y : y.score < x.score)
    IN  ahead \o <<x>> \o behind

RECURSIVE SortByScore(_)
SortByScore(list) ==
    IF list = <<>> THEN <<>>
    ELSE InsertByScore(SortByScore(SubSeq(list, 1, Len(list) - 1)),
                       list[Len(list)])

\* this.articles after search: map, filter, sort and slice each return a new
\* array and the map callback a new object, so the array is what it was
articlesSortedInPlace(articles, q) ==
    SortByScore([i \in 1..Len(articles) |->
                    WithScore(articles[i], articleScore(articles[i], q))])

articlesAfterSearch(articles, q) == articles

\* Search.search up to its slice: map, filter, sort
Ranking(articles, q) ==
    LET scored == [i \in 1..Len(articles) |->
                      WithScore(articles[i], articleScore(articles[i], q))]
    IN  SortByScore(SelectSeq(scored, LAMBDA a : a.score > 0))

\* Search.search
search(articles, q) ==
    LET ranked == Ranking(articles, q)
    IN  SubSeq(ranked, 1, IF Len(ranked) < MaxResults THEN Len(ranked)
                          ELSE MaxResults)

\* the query handleInput and handleFocus make of the input's value
InputQueryNoLowercase(value) == Trim(value)

InputQuery(value) == toLowerCase(Trim(value))

\* Search.showResults
showResultsWhenFound(results) ==
    /\ items' = results
    /\ activeIndex' = -1
    /\ isOpen' = (results # <<>>)

showResults(results) ==
    /\ items' = results
    /\ activeIndex' = -1
    /\ isOpen' = TRUE

\* Search.close
close ==
    /\ isOpen' = FALSE
    /\ activeIndex' = -1
    /\ UNCHANGED items

(***************************************************************************)
(* SpecSearch: a search component holding some flat index, with some text  *)
(* in its input; search is called on the text as it is, and the input and  *)
(* focus handlers run.                                                     *)
(***************************************************************************)

MaxQueryLen == 3

MaxArticles == 12

QueryChars == {"a", "b", "B", " "}

Queries == StringsUpTo(QueryChars, MaxQueryLen)

\* title, skill name and topic name of the articles the indexes are made of
ArticleKinds ==
    {[title |-> <<"A", "b">>, skill |-> <<"a">>, topic |-> <<"b">>],
     [title |-> <<"b", "a">>, skill |-> <<"B">>, topic |-> <<"a", " ", "b">>],
     [title |-> <<"c">>, skill |-> <<"c">>, topic |-> <<"c">>]}

\* the flat index of `n` articles that repeats the kinds of `base`; every
\* article has its own slug
IndexOf(base, n) ==
    [i \in 1..n |->
        LET kind == base[((i - 1) % Len(base)) + 1]
        IN  [title |-> kind.title, skill |-> kind.skill, topic |-> kind.topic,
             slug |-> <<ToString(i)>>]]

\* the empty index, and the short and the full indexes that alternate two
\* kinds
Indexes ==
    {IndexOf(base, n) :
        base \in ArticleKinds \X ArticleKinds,
        n \in {0, 1, 2, MaxArticles}}

InitSearch ==
    /\ searchArticles \in Indexes
    /\ inputValue \in Queries
    /\ query = <<>>
    /\ found = <<>>
    /\ items = <<>>
    /\ isOpen = FALSE
    /\ activeIndex = -1
    /\ lastOp = "init"
    /\ RouterIdle
    /\ NavigationIdle
    /\ AppIdle
    /\ RestIdle

\* search(query) called with the text as it is
SearchCall ==
    /\ query' = inputValue
    /\ found' = search(searchArticles, inputValue)
    /\ searchArticles' = articlesAfterSearch(searchArticles, inputValue)
    /\ lastOp' = "search"
    /\ UNCHANGED <<inputValue, items, isOpen, activeIndex, outsideSearch>>

\* Search.handleInput
HandleInput ==
    LET q == InputQuery(inputValue) IN
    /\ IF Len(q) < 2
       THEN close /\ UNCHANGED <<query, found, searchArticles>>
       ELSE /\ query' = q
            /\ found' = search(searchArticles, q)
            /\ searchArticles' = articlesAfterSearch(searchArticles, q)
            /\ showResults(found')
    /\ lastOp' = "handleInput"
    /\ UNCHANGED <<inputValue, outsideSearch>>

\* Search.handleFocus
HandleFocus ==
    LET q == InputQuery(inputValue) IN
    /\ IF Len(q) >= 2
       THEN /\ query' = q
            /\ found' = search(searchArticles, q)
            /\ searchArticles' = articlesAfterSearch(searchArticles, q)
            /\ showResults(found')
       ELSE UNCHANGED <<query, found, searchArticles, items, isOpen,
                        activeIndex>>
    /\ lastOp' = "handleFocus"
    /\ UNCHANGED <<inputValue, outsideSearch>>

NextSearch ==
    \/ SearchCall
    \/ HandleInput
    \/ HandleFocus

SpecSearch == InitSearch /\ [][NextSearch]_vars

(***************************************************************************)
(* The terms of a query, by position: a term is a maximal run of           *)
(* characters that are not whitespace.                                     *)
(***************************************************************************)

TermStarts(q) ==
    {i \in 1..Len(q) :
        q[i] \notin Whitespace /\ (i = 1 \/ q[i - 1] \in Whitespace)}

TermAt(q, i) ==
    LET j == CHOOSE e \in i..Len(q) :
                 /\ \A k \in i..e : q[k] \notin Whitespace
                 /\ (e = Len(q) \/ q[e + 1] \in Whitespace)
    IN  SubSeq(q, i, j)

\* the score as the documentation states it
StatedScore(article, q) ==
    LET title == toLowerCase(article.title) IN
    10 * Cardinality({i \in TermStarts(q) : Includes(title, TermAt(q, i))})
    + 5 * Cardinality({i \in TermStarts(q) :
                          /\ Includes(title, TermAt(q, i))
                          /\ StartsWith(title, TermAt(q, i))})
    + (IF Includes(toLowerCase(article.skill), q) THEN 3 ELSE 0)
    + (IF Includes(toLowerCase(article.topic), q) THEN 2 ELSE 0)

FoundSlugs == {found[k].slug : k \in 1..Len(found)}

\* C7: every entry search(query) returns carries the stated score: 10 per
\* whitespace-split term the lowercased title contains, 5 more per term it
\* starts with, 3 if the lowercased skill name contains the whole query and
\* 2 if the lowercased topic name does; an article whose stated score is 0
\* is not returned, and one whose stated score is positive is missing only
\* when ten are returned.
C7_ScoreFormula ==
    lastOp = "search" =>
        /\ \A k \in 1..Len(found) :
               found[k].score = StatedScore(found[k], query)
        /\ \A i \in 1..Len(searchArticles) :
               IF StatedScore(searchArticles[i], query) = 0
               THEN searchArticles[i].slug \notin FoundSlugs
               ELSE searchArticles[i].slug \in FoundSlugs
                    \/ Len(found) = MaxResults

\* a two-term query scored 10 for one term, 15 for the other and 2 for the
\* topic name holding the whole query
C7_Witness ==
    /\ lastOp = "search"
    /\ Cardinality(TermStarts(query)) = 2
    /\ \E k \in 1..Len(found) : found[k].score = 27

\* the place of a returned entry in the flat index
PlaceOf(entry) ==
    CHOOSE i \in 1..Len(searchArticles) : searchArticles[i].slug = entry.slug

\* x is listed before y: a higher score, or the same score and an earlier
\* place in the flat index
ListedBefore(x, y) ==
    \/ x.score > y.score
    \/ x.score = y.score /\ PlaceOf(x) < PlaceOf(y)

\* C8: search(query) returns the first 10 entries of the articles with a
\* positive score, ordered by descending score and, among equal scores, by
\* place in the flat index: at most 10 entries, each an article of the index
\* with its positive score, each listed before the next, and every article
\* with a positive score that is left out comes after all ten returned.
C8_TopTenStable ==
    lastOp = "search" =>
        /\ Len(found) <= 10
        /\ \A k \in 1..Len(found) :
               /\ found[k].score > 0
               /\ found[k] = WithScore(searchArticles[PlaceOf(found[k])],
                                 articleScore(searchArticles[PlaceOf(found[k])],
                                              query))
        /\ \A k, l \in 1..Len(found) :
               k < l => ListedBefore(found[k], found[l])
        /\ \A i \in 1..Len(searchArticles) :
               LET left == WithScore(searchArticles[i],
                               articleScore(searchArticles[i], query))
               IN  left.score > 0 /\ left.slug \notin FoundSlugs =>
                       /\ Len(found) = 10
                       /\ \A k \in 1..Len(found) : ListedBefore(found[k], left)

\* more than ten articles matched, with different scores and with ties, and
\* ten were returned
C8_Witness ==
    /\ lastOp = "search"
    /\ Len(found) = 10
    /\ Len(Ranking(searchArticles, query)) > 10
    /\ found[1].score > found[10].score
    /\ found[1].score = found[2].score

\* the terms (non-empty, without whitespace) a string contains
TermsWithin(s) ==
    {SubSeq(s, i, j) : i \in 1..Len(s), j \in 1..Len(s)} \ {<<>>}

PlainTermsWithin(s) ==
    {t \in TermsWithin(s) : \A k \in 1..Len(t) : t[k] \notin Whitespace}

\* the query q followed by a space and the term t
Appended(q, t) == q \o <<" ">> \o t

\* in the ranking `ranked`, the article with slug a is ahead of the one
\* with slug b: a is ranked, and b is not or comes later
Outranks(ranked, a, b) ==
    \E k \in 1..Len(ranked) :
        /\ ranked[k].slug = a
        /\ \A l \in 1..k : ranked[l].slug # b

\* C9: for the query searched, every article with a positive score and
\* every term its title contains: under the query followed by a space and
\* the term, the article's score is not lower, and the article is still
\* ahead of every article it was ahead of.
C9_AppendKeepsRank ==
    lastOp = "search" =>
        LET before == Ranking(searchArticles, query) IN
        \A i \in 1..Len(searchArticles) :
            \A t \in PlainTermsWithin(searchArticles[i].title) :
                LET A == searchArticles[i]
                    after == Ranking(searchArticles, Appended(query, t))
                IN  articleScore(A, query) > 0 =>
                        /\ articleScore(A, Appended(query, t))
                              >= articleScore(A, query)
                        /\ \A j \in 1..Len(searchArticles) :
                               Outranks(before, A.slug, searchArticles[j].slug)
                               => Outranks(after, A.slug,
                                           searchArticles[j].slug)

\* C9, amended: for the query searched, every returned article and every
\* term its lowercased title contains: under the query followed by a space
\* and the term, the article's score is not lower than the score returned,
\* and the article is still ahead of every article it was ahead of whose
\* lowercased title does not contain the term.
C9_AppendMatchingTerm ==
    lastOp = "search" =>
        LET before == Ranking(searchArticles, query) IN
        \A k \in 1..Len(found) :
            \A t \in PlainTermsWithin(toLowerCase(found[k].title)) :
                LET after == Ranking(searchArticles, Appended(query, t)) IN
                /\ articleScore(found[k], Appended(query, t))
                      >= found[k].score
                /\ \A j \in 1..Len(searchArticles) :
                       /\ ~Includes(toLowerCase(searchArticles[j].title), t)
                       /\ Outranks(before, found[k].slug,
                                   searchArticles[j].slug)
                       => Outranks(after, found[k].slug,
                                   searchArticles[j].slug)

\* an article returned with the bonus of its skill name loses that bonus
\* under the longer query and gains more for the appended term, and it was
\* returned ahead of an article whose title does not contain the term
C9_Witness ==
    /\ lastOp = "search"
    /\ \E k \in 1..Len(found) :
           \E t \in PlainTermsWithin(toLowerCase(found[k].title)) :
               /\ Includes(toLowerCase(found[k].skill), query)
               /\ ~Includes(toLowerCase(found[k].skill), Appended(query, t))
               /\ articleScore(found[k], Appended(query, t)) > found[k].score
               /\ \E l \in (k + 1)..Len(found) :
                      ~Includes(toLowerCase(found[l].title), t)

\* C10: search lowercases its query: what search(q) returned is what
\* search(lowercase(q)) returns.
C10_SearchLowercasesQuery ==
    lastOp = "search" => found = search(searchArticles, toLowerCase(query))

\* C10, amended: handleInput and handleFocus lowercase (and trim) the text
\* of the input before they call search, which compares the query as given:
\* the query they pass is in lowercase, and the items they show are what
\* search returns for the lowercased, trimmed text.
C10_HandlersLowercaseQuery ==
    lastOp \in {"handleInput", "handleFocus"} /\ isOpen =>
        /\ query = toLowerCase(query)
        /\ items = search(searchArticles, Trim(toLowerCase(inputValue)))

\* text with a capital letter was typed and matched an article
C10_Witness ==
    /\ lastOp = "handleInput"
    /\ isOpen
    /\ inputValue # toLowerCase(inputValue)
    /\ items # <<>>

\* C17: search never mutates the flat index it was given: a step of search
\* (called as it is, or by handleInput or handleFocus) leaves this.articles
\* with the same length, the same order and the same records, none with a
\* score field.
C17_SearchKeepsIndex ==
    [][lastOp' \in {"search", "handleInput", "handleFocus"} =>
          /\ searchArticles' = searchArticles
          /\ \A i \in 1..Len(searchArticles') :
                 "score" \notin DOMAIN searchArticles'[i]
      ]_vars

\* search returned scored entries in another order than the index holds
\* them, and the index has no score
C17_Witness ==
    /\ lastOp = "search"
    /\ \E k, l \in 1..Len(found) :
           k < l /\ PlaceOf(found[k]) > PlaceOf(found[l])
    /\ \A i \in 1..Len(searchArticles) :
           "score" \notin DOMAIN searchArticles[i]

(***************************************************************************)
(* SpecPanel: the search input and its results panel under the events of   *)
(* the page: typing, focus, blur and its timer, keys, clicks.              *)
(***************************************************************************)

MaxTimers == 1

\* the flat index of the panel: two articles whose titles hold 'ab', and
\* one that matches none of the texts
PanelIndex ==
    <<[title |-> <<"A", "b">>, skill |-> <<"a">>, topic |-> <<"b">>,
       skillSlug |-> <<"a">>, topicSlug |-> <<"b">>, slug |-> <<"a", "b">>],
      [title |-> <<"c">>, skill |-> <<"c">>, topic |-> <<"c">>,
       skillSlug |-> <<"c">>, topicSlug |-> <<"c">>, slug |-> <<"c">>],
      [title |-> <<"b", "a", "b">>, skill |-> <<"B">>, topic |-> <<"a">>,
       skillSlug |-> <<"b">>, topicSlug |-> <<"a">>,
       slug |-> <<"b", "a", "b">>]>>

\* the texts typed: empty, too short, too short once trimmed, matching two
\* articles, matching one, matching none
PanelTexts ==
    {<<>>, <<"a">>, <<" ", "a", " ">>, <<"A", "B">>, <<"b", "a">>,
     <<"b", "b">>}

\* the elements focus can be on: the search input, an element inside the
\* results container, another form field, the body
FocusTargets == {"input", "results", "field", "body"}

PanelKeys == {"ArrowDown", "ArrowUp", "Enter", "Escape", "/"}

outsidePanel ==
    <<navArgs, navigationVars, phase, onRouteChange, rendererVars, menuVars,
      themeVars, tocVars, buildVars>>

\* Math.min(this.activeIndex + 1, items.length - 1)
arrowDown(index, n) == IF index + 1 < n - 1 THEN index + 1 ELSE n - 1

\* Math.max(this.activeIndex - 1, 0)
arrowUp(index) == IF index - 1 > 0 THEN index - 1 ELSE 0

\* items[this.activeIndex]: undefined outside the list
itemAt(list, index) ==
    IF 0 <= index /\ index < Len(list) THEN list[index + 1] ELSE Null

\* tagName of the elements focus can be on: the search input and another
\* input, a textarea, a result item (a div), the body
elementTag(el) ==
    CASE el \in {"input", "field"} -> "INPUT"
      [] el = "textarea" -> "TEXTAREA"
      [] el = "results" -> "DIV"
      [] OTHER -> "BODY"

\* Search.isInputFocused
isInputFocused == elementTag(focus) \in {"INPUT", "TEXTAREA"}

\* input.blur(): when the input has focus it loses it and its blur listener,
\* handleBlur, starts the timer
inputBlur ==
    IF focus = "input"
    THEN focus' = "body" /\ blurTimers' = blurTimers + 1
    ELSE UNCHANGED <<focus, blurTimers>>

\* the input losing focus to `to`: handleBlur starts the timer
loseFocusTo(to) ==
    IF focus = "input"
    THEN focus' = to /\ blurTimers' = blurTimers + 1
    ELSE focus' = to /\ UNCHANGED blurTimers

\* no step lets more than MaxTimers timers be pending
TimerRoom == focus = "input" => blurTimers < MaxTimers

\* Search.handleInput, reading `value` from the input
handleInputPanel(value) ==
    LET q == InputQuery(value) IN
    IF Len(q) < 2
    THEN close /\ UNCHANGED <<query, found, searchArticles>>
    ELSE /\ query' = q
         /\ found' = search(searchArticles, q)
         /\ searchArticles' = articlesAfterSearch(searchArticles, q)
         /\ showResults(found')

\* Search.handleFocus
handleFocusPanel ==
    LET q == InputQuery(inputValue) IN
    IF Len(q) >= 2
    THEN /\ query' = q
         /\ found' = search(searchArticles, q)
         /\ searchArticles' = articlesAfterSearch(searchArticles, q)
         /\ showResults(found')
    ELSE UNCHANGED <<query, found, searchArticles, items, isOpen, activeIndex>>

\* the click listener createResultItem gives the item of `article`; the
\* click then reaches the document listener with a target inside the
\* results container, which does nothing
itemClickKeepOpen(article) ==
    LET hashPath == buildPath(article.skillSlug, article.topicSlug,
                              article.slug)
    IN  /\ fragment' = navigateTarget(hashPath)
        /\ hashchanges' =
               IF fragment' # fragment THEN hashchanges + 1 ELSE hashchanges
        /\ calls' = <<Call("navigate", hashPath)>>
        /\ UNCHANGED <<isOpen, activeIndex, items>>
        /\ inputValue' = <<>>
        /\ inputBlur

itemClick(article) ==
    LET hashPath == buildPath(article.skillSlug, article.topicSlug,
                              article.slug)
    IN  /\ fragment' = navigateTarget(hashPath)
        /\ hashchanges' =
               IF fragment' # fragment THEN hashchanges + 1 ELSE hashchanges
        /\ calls' = <<Call("navigate", hashPath)>>
        /\ close
        /\ inputValue' = <<>>
        /\ inputBlur

InitPanel ==
    /\ searchArticles = PanelIndex
    /\ inputValue = <<>>
    /\ query = <<>>
    /\ found = <<>>
    /\ items = <<>>
    /\ isOpen = FALSE
    /\ activeIndex = -1
    /\ PanelIdle
    /\ RouterIdle
    /\ NavigationIdle
    /\ AppIdle
    /\ ThemeIdle
    /\ TocIdle
    /\ BuildIdle
    /\ lastOp = "init"

\* the user types or deletes in the focused input: the input event
InputEvent(value) ==
    /\ focus = "input"
    /\ value # inputValue
    /\ inputValue' = value
    /\ handleInputPanel(value)
    /\ calls' = <<>>
    /\ lastOp' = "input"
    /\ UNCHANGED <<fragment, currentRoute, hashchanges, panelVars,
                   outsidePanel>>

\* focus moves into the input (a click in it, or the Tab key): the focus
\* event; a click in the input reaches the document listener with a target
\* inside the input, which does nothing
FocusEvent ==
    /\ focus # "input"
    /\ focus' = "input"
    /\ handleFocusPanel
    /\ calls' = <<>>
    /\ lastOp' = "focus"
    /\ UNCHANGED <<fragment, currentRoute, hashchanges, inputValue,
                   blurTimers, outsidePanel>>

\* focus leaves the input for `to` (Tab, or a click on a form field): the
\* blur event, Search.handleBlur
BlurEvent(to) ==
    /\ focus = "input"
    /\ to # "input"
    /\ blurTimers < MaxTimers
    /\ loseFocusTo(to)
    /\ calls' = <<>>
    /\ lastOp' = "blur"
    /\ UNCHANGED <<fragment, currentRoute, hashchanges, searchVars,
                   outsidePanel>>

\* focus moves between elements other than the input
FocusMoves(to) ==
    /\ focus # "input"
    /\ to \notin {"input", focus}
    /\ focus' = to
    /\ calls' = <<>>
    /\ lastOp' = "focusMoves"
    /\ UNCHANGED <<fragment, currentRoute, hashchanges, searchVars,
                   blurTimers, outsidePanel>>

\* a timer of handleBlur fires
TimerFires ==
    /\ blurTimers > 0
    /\ blurTimers' = blurTimers - 1
    /\ IF focus # "results"
       THEN close
       ELSE UNCHANGED <<items, isOpen, activeIndex>>
    /\ calls' = <<>>
    /\ lastOp' = "timer"
    /\ UNCHANGED <<fragment, currentRoute, hashchanges, searchArticles,
                   inputValue, query, found, focus, outsidePanel>>

\* a key goes down in the focused input: Search.handleKeydown, then the
\* keydown listener of the document (Search.init); App.handleKeydown
\* ignores a key whose target is an input
KeydownInInput(key) ==
    /\ focus = "input"
    /\ TimerRoom
    /\ lastOp' = key
    /\ IF ~isOpen
       THEN \* handleKeydown returns; '/' and Escape do nothing in the
            \* document listener: an input has focus, the panel is closed
            /\ calls' = <<>>
            /\ UNCHANGED <<fragment, hashchanges, searchVars, panelVars>>
       ELSE CASE key = "ArrowDown" ->
                    /\ activeIndex' = arrowDown(activeIndex, Len(items))
                    /\ calls' = <<>>
                    /\ UNCHANGED <<fragment, hashchanges, searchArticles,
                                   inputValue, query, found, items, isOpen,
                                   panelVars>>
              [] key = "ArrowUp" ->
                    /\ activeIndex' = arrowUp(activeIndex)
                    /\ calls' = <<>>
                    /\ UNCHANGED <<fragment, hashchanges, searchArticles,
                                   inputValue, query, found, items, isOpen,
                                   panelVars>>
              [] key = "Enter" /\ activeIndex >= 0
                               /\ itemAt(items, activeIndex) # Null ->
                    /\ hashchanges < MaxPendingEvents
                    /\ itemClick(itemAt(items, activeIndex))
                    /\ UNCHANGED <<searchArticles, query, found>>
              [] key = "Escape" ->
                    \* close and input.blur(); the document listener then
                    \* finds the panel closed
                    /\ close
                    /\ inputBlur
                    /\ calls' = <<>>
                    /\ UNCHANGED <<fragment, hashchanges, searchArticles,
                                   inputValue, query, found>>
              [] OTHER ->
                    /\ calls' = <<>>
                    /\ UNCHANGED <<fragment, hashchanges, searchVars,
                                   panelVars>>
    /\ UNCHANGED <<currentRoute, outsidePanel>>

\* a key goes down while the input does not have focus: the keydown
\* listener of the document (Search.init)
KeydownElsewhere(key) ==
    /\ focus # "input"
    /\ key \in {"/", "Escape"}
    /\ lastOp' = IF key = "/" THEN "slash" ELSE "escape"
    /\ calls' = <<>>
    /\ IF key = "/"
       THEN IF ~isInputFocused
            THEN \* input.focus(), and with it the focus event
                 /\ focus' = "input"
                 /\ handleFocusPanel
                 /\ UNCHANGED <<inputValue, blurTimers>>
            ELSE UNCHANGED <<searchVars, panelVars>>
       ELSE IF isOpen
            THEN \* close; input.blur() on an input without focus does
                 \* nothing
                 /\ close
                 /\ UNCHANGED <<searchArticles, inputValue, query, found,
                                panelVars>>
            ELSE UNCHANGED <<searchVars, panelVars>>
    /\ UNCHANGED <<fragment, currentRoute, hashchanges, outsidePanel>>

\* a click outside the input and the results container: the mouse button
\* takes focus from the input (blur), then the click listener of the
\* document closes the panel
ClickOutside ==
    /\ TimerRoom
    /\ loseFocusTo("body")
    /\ close
    /\ calls' = <<>>
    /\ lastOp' = "clickOutside"
    /\ UNCHANGED <<fragment, currentRoute, hashchanges, searchArticles,
                   inputValue, query, found, outsidePanel>>

\* a click on the i-th result item of the open panel: the mouse button
\* takes focus from the input (blur), then the click listener of the item
\* runs
ClickItem(i) ==
    /\ isOpen
    /\ i \in 1..Len(items)
    /\ TimerRoom
    /\ hashchanges < MaxPendingEvents
    /\ itemClick(items[i])
    /\ lastOp' = "clickItem"
    /\ UNCHANGED <<currentRoute, searchArticles, query, found, outsidePanel>>

\* the browser dispatches a queued hashchange event: Router.handleRoute,
\* no callback installed
PanelHashChange ==
    /\ hashchanges > 0
    /\ hashchanges' = hashchanges - 1
    /\ currentRoute' = parseHash(LocationHash(fragment))
    /\ calls' = <<Call("hashchange", Null), Call("handleRoute", Null)>>
    /\ lastOp' = "hashchange"
    /\ UNCHANGED <<fragment, searchVars, panelVars, outsidePanel>>

NextPanel ==
    \/ \E value \in PanelTexts : InputEvent(value)
    \/ FocusEvent
    \/ \E to \in FocusTargets : BlurEvent(to)
    \/ \E to \in FocusTargets : FocusMoves(to)
    \/ TimerFires
    \/ \E key \in PanelKeys : KeydownInInput(key)
    \/ \E key \in PanelKeys : KeydownElsewhere(key)
    \/ ClickOutside
    \/ \E i \in 1..MaxResults : ClickItem(i)
    \/ PanelHashChange

SpecPanel == InitPanel /\ [][NextPanel]_vars

\* C11: an input or focus event with a trimmed text of length 2 or more
\* leaves the panel open, also with zero matches; an input event with a
\* shorter trimmed text, Escape, a click outside the input and the results,
\* and the blur timer firing with focus outside the results leave it
\* closed; a blur leaves the panel as it was.
C11_PanelStateMachine ==
    [][/\ (lastOp' \in {"input", "focus"} \/ (lastOp' = "slash" /\ focus' = "input"))
          /\ Len(Trim(inputValue')) >= 2
          => isOpen'
       /\ lastOp' = "input" /\ Len(Trim(inputValue')) < 2 => ~isOpen'
       /\ lastOp' \in {"Escape", "escape", "clickOutside"} => ~isOpen'
       /\ lastOp' = "timer" /\ focus # "results" => ~isOpen'
       /\ lastOp' = "blur" =>
              isOpen' = isOpen /\ items' = items /\ blurTimers' > blurTimers
      ]_vars

\* the panel shows the no-results placeholder, the input has lost focus and
\* the timer has not fired: the panel is still open
C11_Witness ==
    /\ lastOp = "blur"
    /\ isOpen
    /\ items = <<>>
    /\ blurTimers > 0

\* C12: Enter in the open panel with the cursor on result i closes the
\* panel (isOpen false, activeIndex -1) and calls router.navigate exactly
\* once, with buildPath(skillSlug, topicSlug, slug) of the i-th result
\* shown; the fragment becomes /skillSlug/topicSlug/slug.
C12_EnterActivates ==
    [][(/\ lastOp' = "Enter"
        /\ isOpen
        /\ activeIndex >= 0
        /\ activeIndex < Len(items)) =>
          LET shown == items[activeIndex + 1] IN
          /\ ~isOpen'
          /\ activeIndex' = -1
          /\ calls' = <<Call("navigate",
                            buildPath(shown.skillSlug, shown.topicSlug,
                                      shown.slug))>>
          /\ fragment' = <<"/">> \o shown.skillSlug \o <<"/">>
                             \o shown.topicSlug \o <<"/">> \o shown.slug
      ]_vars

\* Enter on the second of two results navigated to it and closed the panel
C12_Witness ==
    /\ lastOp = "Enter"
    /\ ~isOpen
    /\ Len(items) = 2
    /\ calls = <<Call("navigate",
                      buildPath(items[2].skillSlug, items[2].topicSlug,
                                items[2].slug))>>

\* C13: the cursor is bounded: activeIndex is -1 or the index of a result
\* item rendered in the results container.
C13_CursorBounded ==
    activeIndex = -1 \/ (0 <= activeIndex /\ activeIndex < Len(items))

\* C27: a pending blur timer does not close a panel that was reopened: when
\* the timer of handleBlur fires while the input has the focus again, its
\* trimmed text has length 2 or more and the panel is open, the panel stays
\* open.
C27_TimerSparesReopenedPanel ==
    [][(/\ lastOp' = "timer"
        /\ focus = "input"
        /\ Len(Trim(inputValue)) >= 2
        /\ isOpen) => isOpen'
      ]_vars

(***************************************************************************)
(* TableOfContents (scripts/toc.js)                                        *)
(***************************************************************************)

\* the class \w, on the characters the model uses
WordChars == {"a", "b", "c", "_", "1"}

\* String.prototype.replace(/[^\w\s-]/g, '')
StripNonWord(s) ==
    SelectSeq(s, LAMBDA c : c \in WordChars \cup Whitespace \cup {"-"})

generateIdNoFallback(text, index) ==
    LET stripped == StripNonWord(toLowerCase(text))
        dashed == Join(Split(stripped, Whitespace, TRUE), <<"-">>)
        single == Join(Split(dashed, {"-"}, TRUE), <<"-">>)
    IN  Trim(single)

\* TableOfContents.generateId
generateId(text, index) ==
    LET stripped == StripNonWord(toLowerCase(text))
        dashed == Join(Split(stripped, Whitespace, TRUE), <<"-">>)
        single == Join(Split(dashed, {"-"}, TRUE), <<"-">>)
        slug == Trim(single)
    IN  IF slug # <<>> THEN slug
        ELSE <<"h", "e", "a", "d", "i", "n", "g", "-">> \o <<ToString(index)>>

\* the tags querySelectorAll('h1, h2, h3, h4') selects
TocTags == {"h1", "h2", "h3", "h4"}

\* parseInt(heading.tagName.charAt(1))
LevelOf(tag) ==
    CASE tag = "h1" -> 1 [] tag = "h2" -> 2 [] tag = "h3" -> 3
      [] tag = "h4" -> 4 [] tag = "h5" -> 5 [] OTHER -> 0

\* contentElement.querySelectorAll('h1, h2, h3, h4'), in document order
headingElements(content) ==
    SelectSeq(content.children, LAMBDA e : e.tag \in TocTags)

\* the entry the forEach of generate pushes on this.headings for the
\* heading at `index` (from 0); the heading is given the id
headingEntry(heading, index) ==
    LET id == IF heading.id # <<>> THEN heading.id
              ELSE generateId(heading.text, index)
    IN  [element |-> [heading EXCEPT !.id = id], id |-> id,
         level |-> LevelOf(heading.tag)]

\* the link the forEach of generate pushes on this.links
linkEntry(heading, index) ==
    [href |-> <<"#">> \o headingEntry(heading, index).id,
     text |-> heading.text,
     level |-> LevelOf(heading.tag),
     active |-> FALSE]

\* 'Clear previous': this.headings = [] and this.links = []
keepPrevious(list) == list

clearPrevious(list) == <<>>

\* the requests counted between two frames; past it the count stays
MaxRequests == 2

\* cancelAnimationFrame(this.scrollTimeout), guarded by its truthiness
keepPending(pending, handle) == pending

cancelPending(pending, handle) ==
    IF handle # 0 THEN pending \ {handle} ELSE pending

\* the handle requestAnimationFrame returns: one that no pending request
\* has and that is not the one remembered
requestHandle(pending, remembered) ==
    CHOOSE n \in 1..(Cardinality(pending) + 2) :
        /\ n \notin pending \cup {remembered}
        /\ \A m \in 1..(n - 1) : m \in pending \cup {remembered}

\* TableOfContents.handleScroll: with headings, the remembered request is
\* cancelled and a new one made
handleScroll(headings) ==
    IF headings = <<>>
    THEN UNCHANGED <<tocFrame, scrollTimeout, tocRequests>>
    ELSE LET kept == cancelPending(tocFrame, scrollTimeout)
             handle == requestHandle(kept, scrollTimeout)
         IN  /\ tocFrame' = kept \cup {handle}
             /\ scrollTimeout' = handle
             /\ tocRequests' =
                    IF tocRequests < MaxRequests THEN tocRequests + 1
                    ELSE MaxRequests

\* this.activeIndex = -1 in generate and clear
keepActive(index) == index

resetActive(index) == -1

\* TableOfContents.generate(contentElement)
generate(content) ==
    LET selected == IF ~content.present THEN <<>>
                    ELSE headingElements(content)
    IN
    /\ tocContent' = content
    /\ tocActiveIndex' = resetActive(tocActiveIndex)
    /\ tocHeadings' = clearPrevious(tocHeadings) \o
           [k \in 1..Len(selected) |-> headingEntry(selected[k], k - 1)]
    /\ tocLinks' = clearPrevious(tocLinks) \o
           [k \in 1..Len(selected) |-> linkEntry(selected[k], k - 1)]
    /\ IF selected = <<>>
       THEN \* renderEmpty, and the return before handleScroll
            /\ tocView' = "empty"
            /\ UNCHANGED <<tocFrame, scrollTimeout, tocRequests>>
       ELSE tocView' = "list" /\ handleScroll(tocHeadings')

\* TableOfContents.clear
clear ==
    /\ tocView' = "blank"
    /\ tocHeadings' = <<>>
    /\ tocLinks' = <<>>
    /\ tocActiveIndex' = -1

headerHeight == 60

spyOffset == 100

\* rect.top + window.scrollY of updateActiveHeading: getBoundingClientRect
\* gives the place in the viewport of an element of the document, and zeros
\* for one that was taken out of it
elementTop(heading) ==
    LET rectTop == IF tocAttached THEN heading.element.top - scrollY ELSE 0
    IN  rectTop + scrollY

\* the loop of updateActiveHeading, from index i down
RECURSIVE scanDown(_, _, _)
scanDown(headings, i, threshold) ==
    IF i < 0 THEN -1
    ELSE IF threshold >= elementTop(headings[i + 1]) THEN i
    ELSE scanDown(headings, i - 1, threshold)

RECURSIVE scanUp(_, _, _)
scanUp(headings, i, threshold) ==
    IF i >= Len(headings) THEN -1
    ELSE IF threshold >= elementTop(headings[i + 1]) THEN i
    ELSE scanUp(headings, i + 1, threshold)

activeHeadingFromFirst(headings, threshold) == scanUp(headings, 0, threshold)

\* the local activeIndex updateActiveHeading computes
activeHeading(headings, threshold) ==
    scanDown(headings, Len(headings) - 1, threshold)

\* TableOfContents.updateActiveHeading
updateActiveHeading ==
    LET new == activeHeading(tocHeadings, scrollY + headerHeight + spyOffset)
        changed == new # tocActiveIndex
        removed ==
            IF changed /\ tocActiveIndex >= 0 /\ tocActiveIndex < Len(tocLinks)
            THEN [tocLinks EXCEPT ![tocActiveIndex + 1].active = FALSE]
            ELSE tocLinks
        added ==
            IF changed /\ new >= 0 /\ new < Len(removed)
            THEN [removed EXCEPT ![new + 1].active = TRUE]
            ELSE removed
    IN  /\ tocLinks' = added
        /\ tocActiveIndex' = new

(***************************************************************************)
(* SpecToc: a table of contents generated again and again from rendered    *)
(* contents, with the page scrolled and animation frames running in        *)
(* between.                                                                *)
(***************************************************************************)

MaxElements == 2

\* the elements the rendered contents are made of: headings without an id
\* (one whose text leaves no slug, one with runs of spaces and hyphens),
\* a heading with an id, a heading of a level the table leaves out, a
\* paragraph
HeadingPlain == [tag |-> "h1", id |-> <<>>, text |-> <<"A", " ", "b">>]

HeadingNoSlug == [tag |-> "h2", id |-> <<>>, text |-> <<"!">>]

HeadingRuns ==
    [tag |-> "h3", id |-> <<>>, text |-> <<"a", " ", "-", " ", " ", "B", "!">>]

HeadingWithId == [tag |-> "h4", id |-> <<"c">>, text |-> <<"b">>]

HeadingDeep == [tag |-> "h5", id |-> <<>>, text |-> <<"c">>]

Paragraph == [tag |-> "p", id |-> <<>>, text |-> <<"a">>]

ElementKinds ==
    {HeadingPlain, HeadingNoSlug, HeadingRuns, HeadingWithId, HeadingDeep,
     Paragraph}

\* the children of the rendered contents, in document order
ContentShapes ==
    {<<>>, <<Paragraph>>, <<HeadingDeep>>, <<HeadingPlain>>,
     <<HeadingNoSlug>>, <<HeadingWithId>>, <<HeadingRuns>>,
     <<HeadingPlain, HeadingNoSlug>>, <<Paragraph, HeadingPlain>>,
     <<HeadingWithId, HeadingPlain>>, <<HeadingNoSlug, Paragraph>>,
     <<HeadingPlain, HeadingPlain>>, <<HeadingDeep, HeadingRuns>>,
     <<HeadingNoSlug, HeadingNoSlug>>,
     <<HeadingPlain, Paragraph, HeadingNoSlug>>,
     <<Paragraph, HeadingWithId, HeadingPlain>>,
     <<HeadingPlain, HeadingRuns, HeadingWithId>>}

\* the height the layout gives an element, in pixels
elementHeight(e) == IF e.tag = "p" THEN 300 ELSE 100

\* the distance from the top of the document to the k-th child, the content
\* starting 100 px down
RECURSIVE layoutTop(_, _)
layoutTop(children, k) ==
    IF k = 1 THEN 100
    ELSE layoutTop(children, k - 1) + elementHeight(children[k - 1])

\* the children as laid out in the document
Laid(children) ==
    [k \in 1..Len(children) |->
        [tag |-> children[k].tag, id |-> children[k].id,
         text |-> children[k].text, top |-> layoutTop(children, k)]]

\* what renders hand to onRender: null (renderError) or the content element
Contents ==
    {NoContent} \cup
    {ContentElement(Laid(children)) :
        children \in {shape \in ContentShapes : Len(shape) <= MaxElements}}

\* the places the page is scrolled to, in pixels
ScrollPositions == {0, 40, 300}

outsideToc ==
    <<routerVars, navigationVars, appVars, searchVars, panelVars, themeVars,
      buildVars>>

InitToc ==
    /\ TocIdle
    /\ RouterIdle
    /\ NavigationIdle
    /\ AppIdle
    /\ SearchIdle
    /\ PanelIdle
    /\ ThemeIdle
    /\ BuildIdle
    /\ lastOp = "init"

\* markdown.onRender(contentElement): toc.generate(contentElement), the
\* content element being in the document by then
Generate(content) ==
    /\ tocListening
    /\ generate(content)
    /\ tocAttached' = content.present
    /\ lastOp' = "generate"
    /\ UNCHANGED <<scrollY, tocListening, tocEvals, outsideToc>>

\* MarkdownRenderer.renderLoading: the container is emptied, which takes
\* the content element out of the document
Loading ==
    /\ tocListening
    /\ tocAttached
    /\ tocAttached' = FALSE
    /\ lastOp' = "loading"
    /\ UNCHANGED <<tocHeadings, tocLinks, tocActiveIndex, tocView, tocFrame,
                   tocContent, scrollTimeout, scrollY, tocListening,
                   tocRequests, tocEvals, outsideToc>>

\* the page is scrolled to y: the scroll event of the window, and
\* TableOfContents.handleScroll while it listens
Scroll(y) ==
    /\ y # scrollY
    /\ scrollY' = y
    /\ IF tocListening
       THEN handleScroll(tocHeadings)
       ELSE UNCHANGED <<tocFrame, scrollTimeout, tocRequests>>
    /\ lastOp' = "scroll"
    /\ UNCHANGED <<tocHeadings, tocLinks, tocActiveIndex, tocView, tocContent,
                   tocAttached, tocListening, tocEvals, outsideToc>>

\* an animation frame: every pending callback runs updateActiveHeading
FrameFires ==
    /\ tocFrame # {}
    /\ tocFrame' = {}
    /\ tocEvals' = Cardinality(tocFrame)
    /\ tocRequests' = 0
    /\ updateActiveHeading
    /\ lastOp' = "frame"
    /\ UNCHANGED <<tocHeadings, tocView, tocContent, scrollTimeout, scrollY,
                   tocAttached, tocListening, outsideToc>>

\* TableOfContents.clear
Clear ==
    /\ tocListening
    /\ clear
    /\ lastOp' = "clear"
    /\ UNCHANGED <<tocFrame, tocContent, scrollTimeout, scrollY, tocAttached,
                   tocListening, tocRequests, tocEvals, outsideToc>>

\* TableOfContents.destroy, after which the table is not used again
Destroy ==
    /\ tocListening
    /\ tocListening' = FALSE
    /\ tocFrame' = cancelPending(tocFrame, scrollTimeout)
    /\ clear
    /\ lastOp' = "destroy"
    /\ UNCHANGED <<tocContent, scrollTimeout, scrollY, tocAttached,
                   tocRequests, tocEvals, outsideToc>>

NextToc ==
    \/ \E content \in Contents : Generate(content)
    \/ Loading
    \/ \E y \in ScrollPositions : Scroll(y)
    \/ FrameFires
    \/ Clear
    \/ Destroy

SpecToc == InitToc /\ [][NextToc]_vars

\* the places of the level 1-4 headings in the content given to generate
HeadingPlaces ==
    IF ~tocContent.present THEN {}
    ELSE {i \in 1..Len(tocContent.children) :
             LevelOf(tocContent.children[i].tag) \in 1..4}

\* the place of the k-th of them, in document order
PlaceOfHeading(k) ==
    CHOOSE i \in HeadingPlaces :
        Cardinality({j \in HeadingPlaces : j < i}) = k - 1

\* C14: generate discards prior state: after generate(c), whatever was
\* there before, headings and links list exactly the level 1-4 headings of
\* c in document order (level, text, id and link target each of the heading
\* at that place) and activeIndex is -1; with c null or without such
\* headings both are empty and the container shows the empty state, else it
\* shows the list.
C14_GenerateDiscards ==
    lastOp = "generate" =>
        /\ tocActiveIndex = -1
        /\ Len(tocHeadings) = Cardinality(HeadingPlaces)
        /\ Len(tocLinks) = Cardinality(HeadingPlaces)
        /\ \A k \in 1..Cardinality(HeadingPlaces) :
               LET heading == tocContent.children[PlaceOfHeading(k)] IN
               /\ tocHeadings[k].level = LevelOf(heading.tag)
               /\ tocHeadings[k].element.tag = heading.tag
               /\ tocHeadings[k].element.text = heading.text
               /\ heading.id # <<>> => tocHeadings[k].id = heading.id
               /\ tocHeadings[k].id # <<>>
               /\ tocLinks[k].text = heading.text
               /\ tocLinks[k].href = <<"#">> \o tocHeadings[k].id
               /\ ~tocLinks[k].active
        /\ IF HeadingPlaces = {}
           THEN tocHeadings = <<>> /\ tocLinks = <<>> /\ tocView = "empty"
           ELSE tocView = "list"

\* generate was given a content without headings while the frame requested
\* for the headings of the article before was still pending
C14_Witness ==
    /\ lastOp = "generate"
    /\ tocContent.present
    /\ tocContent.children # <<>>
    /\ tocView = "empty"
    /\ tocFrame # {}

\* C21: at any time at most one animation-frame callback of the table of
\* contents is pending, and a frame runs at most one updateActiveHeading
\* evaluation, however many scroll events and generate calls came before it.
C21_OneEvaluationPerFrame ==
    /\ Cardinality(tocFrame) <= 1
    /\ tocEvals <= 1

\* a scroll event has made the second request or more since the last frame,
\* and one callback is pending
C21_Witness ==
    /\ lastOp = "scroll"
    /\ tocRequests >= 2
    /\ Cardinality(tocFrame) = 1
    /\ tocEvals = 1

\* the document top updateActiveHeading takes a heading to have: its place
\* in the layout, and the scroll position once it is out of the document
DocumentTop(heading) ==
    IF tocAttached THEN heading.element.top ELSE scrollY

\* the indexes of the headings at or above scrollY + headerHeight + offset
ReachedHeadings ==
    {i \in 0..(Len(tocHeadings) - 1) :
        DocumentTop(tocHeadings[i + 1]) <= scrollY + headerHeight + spyOffset}

\* C22: after every updateActiveHeading, activeIndex is the largest index
\* of a heading whose document top is at or above scrollY + headerHeight +
\* offset, and -1 when there is none; with the headings in the document,
\* every heading up to it is at or above the threshold and every heading
\* after it below.
C22_ActiveIsLastReached ==
    lastOp = "frame" =>
        /\ IF ReachedHeadings = {} THEN tocActiveIndex = -1
           ELSE /\ tocActiveIndex \in ReachedHeadings
                /\ \A i \in ReachedHeadings : i <= tocActiveIndex
        /\ tocAttached =>
               \A i \in 0..(Len(tocHeadings) - 1) :
                   (i <= tocActiveIndex) <=> (i \in ReachedHeadings)

\* the frame found the first of two headings active, the second still
\* below the threshold
C22_Witness ==
    /\ lastOp = "frame"
    /\ tocAttached
    /\ Len(tocHeadings) = 2
    /\ tocActiveIndex = 0
    /\ tocLinks[1].active

\* s without the characters outside the word class, whitespace and '-'
RECURSIVE KeepSlugChars(_)
KeepSlugChars(s) ==
    IF s = <<>> THEN <<>>
    ELSE IF Head(s) \in WordChars \cup Whitespace \cup {"-"}
         THEN <<Head(s)>> \o KeepSlugChars(Tail(s))
         ELSE KeepSlugChars(Tail(s))

\* s from its first character outside `class` on
RECURSIVE AfterRun(_, _)
AfterRun(s, class) ==
    IF s # <<>> /\ Head(s) \in class THEN AfterRun(Tail(s), class) ELSE s

\* s with every run of characters of `class` replaced by one '-'
RECURSIVE RunsToHyphen(_, _)
RunsToHyphen(s, class) ==
    IF s = <<>> THEN <<>>
    ELSE IF Head(s) \in class
         THEN <<"-">> \o RunsToHyphen(AfterRun(s, class), class)
         ELSE <<Head(s)>> \o RunsToHyphen(Tail(s), class)

\* the slugified text: lowercased, characters other than word, space and
\* hyphen removed, whitespace runs to '-', repeated '-' collapsed
Slugified(text) ==
    RunsToHyphen(
        RunsToHyphen(KeepSlugChars([i \in 1..Len(text) |-> LowerChar(text[i])]),
                     Whitespace),
        {"-"})

HeadingDash == <<"h", "e", "a", "d", "i", "n", "g", "-">>

\* C23: after generate, every recorded heading has a non-empty anchor id
\* equal to its element's id: a heading that had an id keeps it, one without
\* gets the slugified text, or heading-<index> when that is empty; the i-th
\* link's href is '#' followed by the i-th heading's id.
C23_AnchorIds ==
    lastOp = "generate" =>
        /\ Len(tocLinks) = Len(tocHeadings)
        /\ \A k \in 1..Len(tocHeadings) :
               LET before == tocContent.children[PlaceOfHeading(k)]
                   id == tocHeadings[k].id
               IN  /\ id # <<>>
                   /\ tocHeadings[k].element.id = id
                   /\ before.id # <<>> => id = before.id
                   /\ before.id = <<>> /\ Slugified(before.text) # <<>> =>
                          id = Slugified(before.text)
                   /\ before.id = <<>> /\ Slugified(before.text) = <<>> =>
                          id = HeadingDash \o <<ToString(k - 1)>>
                   /\ tocLinks[k].href = <<"#">> \o id

\* generate has listed two headings without an id: one got its slugified
\* text, the other, whose text leaves no slug, heading-1
C23_Witness ==
    /\ lastOp = "generate"
    /\ Len(tocHeadings) = 2
    /\ tocHeadings[1].id = <<"a", "-", "b">>
    /\ tocHeadings[2].id = HeadingDash \o <<"1">>
    /\ tocLinks[2].href = <<"#">> \o HeadingDash \o <<"1">>

\* C28: headings and links have the same length, and the links carrying the
\* class 'active' are exactly links[activeIndex] when activeIndex >= 0 and
\* none when it is -1, whatever the interleaving of generate, clear, scroll
\* events and animation frames.
C28_ActiveLinkConsistent ==
    /\ Len(tocHeadings) = Len(tocLinks)
    /\ tocActiveIndex \in -1..(Len(tocLinks) - 1)
    /\ {k \in 1..Len(tocLinks) : tocLinks[k].active} =
           IF tocActiveIndex >= 0 THEN {tocActiveIndex + 1} ELSE {}

\* a frame requested for an article with headings ran after generate had
\* replaced them with the empty state
C28_Witness ==
    /\ lastOp = "frame"
    /\ tocEvals = 1
    /\ tocView = "empty"
    /\ tocHeadings = <<>>
    /\ tocActiveIndex = -1

(***************************************************************************)
(* build.js (printed in README.md): generateManifest                       *)
(***************************************************************************)

DefaultOrder == 999

\* String.prototype.toUpperCase, on the letters the model uses
UpperChar(c) ==
    CASE c = "a" -> "A"
      [] c = "b" -> "B"
      [] c = "c" -> "C"
      [] OTHER -> c

\* the class \w on the characters of folder and file names
NameWordChars == {"a", "b", "c", "A", "B", "C", "0", "1", "_"}

\* toDisplayName: strip .md, '-' and '_' to spaces, capitalise each word
toDisplayName(name) ==
    LET spaced == [i \in 1..Len(StripMd(name)) |->
                      IF StripMd(name)[i] \in {"-", "_"} THEN " "
                      ELSE StripMd(name)[i]]
    IN  [i \in 1..Len(spaced) |->
            IF /\ spaced[i] \in NameWordChars
               /\ (i = 1 \/ spaced[i - 1] \notin NameWordChars)
            THEN UpperChar(spaced[i])
            ELSE spaced[i]]

\* the place of a character in the collation of localeCompare: space and
\* punctuation, digits, then the letters, a letter and its capital together
CharRank(c) ==
    CASE c = " " -> 0
      [] c \in {"0"} -> 2
      [] c \in {"1"} -> 3
      [] c \in {"a", "A"} -> 4
      [] c \in {"b", "B"} -> 5
      [] c \in {"c", "C"} -> 6
      [] OTHER -> 1

\* String.prototype.localeCompare: -1, 0 or 1; the letters decide first,
\* then, between strings equal but for case, the first difference, the
\* small letter first
RECURSIVE comparePrimary(_, _)
comparePrimary(a, b) ==
    IF a = <<>> /\ b = <<>> THEN 0
    ELSE IF a = <<>> THEN -1
    ELSE IF b = <<>> THEN 1
    ELSE IF CharRank(Head(a)) < CharRank(Head(b)) THEN -1
    ELSE IF CharRank(Head(a)) > CharRank(Head(b)) THEN 1
    ELSE comparePrimary(Tail(a), Tail(b))

RECURSIVE compareCase(_, _)
compareCase(a, b) ==
    IF a = <<>> \/ b = <<>> THEN 0
    ELSE IF Head(a) = Head(b) THEN compareCase(Tail(a), Tail(b))
    ELSE IF Head(a) = LowerChar(Head(a)) THEN -1 ELSE 1

localeCompare(a, b) ==
    IF comparePrimary(a, b) # 0 THEN comparePrimary(a, b)
    ELSE compareCase(a, b)

\* articles.sort((a, b) => a.title.localeCompare(b.title)), a stable sort
RECURSIVE sortByTitle(_)
sortByTitle(list) ==
    IF list = <<>> THEN <<>>
    ELSE LET x == list[Len(list)]
             sorted == sortByTitle(SubSeq(list, 1, Len(list) - 1))
         IN  SelectSeq(sorted, LAMBDA y : localeCompare(y.title, x.title) <= 0)
             \o <<x>>
             \o SelectSeq(sorted, LAMBDA y : localeCompare(y.title, x.title) > 0)

\* the comparator of the topic and skill sorts: by order, then by name
compareOrderName(a, b) ==
    IF a.order # b.order THEN a.order - b.order
    ELSE localeCompare(a.name, b.name)

RECURSIVE sortByOrderName(_)
sortByOrderName(list) ==
    IF list = <<>> THEN <<>>
    ELSE LET x == list[Len(list)]
             sorted == sortByOrderName(SubSeq(list, 1, Len(list) - 1))
         IN  SelectSeq(sorted, LAMBDA y : compareOrderName(y, x) <= 0)
             \o <<x>>
             \o SelectSeq(sorted, LAMBDA y : compareOrderName(y, x) > 0)

\* a _meta.json: absent, not JSON, the JSON null, or an object that may
\* hold name and order
MetaFile(kind, hasName, name, hasOrder, order) ==
    [kind |-> kind, hasName |-> hasName, name |-> name,
     hasOrder |-> hasOrder, order |-> order]

NoMeta == MetaFile("absent", FALSE, <<>>, FALSE, 0)

\* what readdirSync lists: a markdown or other file (with the title
\* extractTitle finds in it, empty for none), or a directory with its
\* _meta.json and its own listing
FileItem(name, title) ==
    [name |-> name, isDir |-> FALSE, title |-> title, meta |-> NoMeta,
     items |-> <<>>]

DirItem(name, meta, listing) ==
    [name |-> name, isDir |-> TRUE, title |-> <<>>, meta |-> meta,
     items |-> listing]

\* readMeta: the parsed value; {} when the file is absent or JSON.parse
\* throws
readMeta(meta) ==
    CASE meta.kind = "object" ->
            [isNull |-> FALSE, threw |-> FALSE, hasName |-> meta.hasName,
             name |-> meta.name, hasOrder |-> meta.hasOrder,
             order |-> meta.order]
      [] meta.kind = "null" ->
            [isNull |-> TRUE, threw |-> FALSE, hasName |-> FALSE,
             name |-> <<>>, hasOrder |-> FALSE, order |-> 0]
      [] OTHER ->
            [isNull |-> FALSE, threw |-> FALSE, hasName |-> FALSE,
             name |-> <<>>, hasOrder |-> FALSE, order |-> 0]

\* meta.name || toDisplayName(folder)
nameOr(meta, folder) ==
    IF meta.hasName /\ meta.name # <<>> THEN meta.name
    ELSE toDisplayName(folder)

\* meta.order || 999
orderOr(meta) ==
    IF meta.hasOrder /\ meta.order # 0 THEN meta.order ELSE DefaultOrder

\* item.startsWith('.') || item.startsWith('_')
hiddenOrMeta(item) == StartsWith(item, <<".">>) \/ StartsWith(item, <<"_">>)

EndsWithMd(item) ==
    Len(item) >= 3 /\ SubSeq(item, Len(item) - 2, Len(item)) = DotMd

\* the article scanTopic pushes for the file `item`
articleOfSlugFromTitle(item) ==
    [slug |-> toSlug(IF item.title # <<>> THEN item.title
                     ELSE toDisplayName(item.name)),
     title |-> IF item.title # <<>> THEN item.title
               ELSE toDisplayName(item.name),
     file |-> StripMd(item.name)]

articleOf(item) ==
    [slug |-> toSlug(item.name),
     title |-> IF item.title # <<>> THEN item.title
               ELSE toDisplayName(item.name),
     file |-> StripMd(item.name)]

\* scanTopic(topicPath, topicName) on the directory `dir`: the topic, or
\* that it threw
scanTopic(dir) ==
    LET meta == readMeta(dir.meta)
        files == SelectSeq(dir.items,
                     LAMBDA item : /\ ~hiddenOrMeta(item.name)
                                   /\ EndsWithMd(item.name)
                                   /\ ~item.isDir)
        articles == sortByTitle([k \in 1..Len(files) |-> articleOf(files[k])])
    IN  [threw |-> meta.threw \/ meta.isNull,
         slug |-> toSlug(dir.name),
         name |-> nameOr(meta, dir.name),
         folder |-> dir.name,
         order |-> orderOr(meta),
         articles |-> articles]

\* scanSkill(skillPath, skillName) on the directory `dir`
scanSkill(dir) ==
    LET meta == readMeta(dir.meta)
        dirs == SelectSeq(dir.items,
                    LAMBDA item : ~hiddenOrMeta(item.name) /\ item.isDir)
        scanned == [k \in 1..Len(dirs) |-> scanTopic(dirs[k])]
        topics == SelectSeq(scanned, LAMBDA topic : topic.articles # <<>>)
    IN  [threw |-> \/ meta.threw
                   \/ meta.isNull
                   \/ \E k \in 1..Len(scanned) : scanned[k].threw,
         slug |-> toSlug(dir.name),
         name |-> nameOr(meta, dir.name),
         folder |-> dir.name,
         order |-> orderOr(meta),
         topics |-> sortByOrderName(topics)]

\* generateManifest on the listing of content/: the skills of the
\* manifest, or that it threw
generateManifest(listing) ==
    LET dirs == SelectSeq(listing,
                    LAMBDA item : ~hiddenOrMeta(item.name) /\ item.isDir)
        scanned == [k \in 1..Len(dirs) |-> scanSkill(dirs[k])]
        skills == SelectSeq(scanned, LAMBDA skill : skill.topics # <<>>)
        threw == \E k \in 1..Len(scanned) : scanned[k].threw
    IN  [ran |-> TRUE, threw |-> threw,
         skills |-> IF threw THEN <<>> ELSE sortByOrderName(skills)]

(***************************************************************************)
(* SpecBuild: build.js run on small content directories.                   *)
(***************************************************************************)

MaxDirs == 2

\* folder names: two that differ by case only, one apart
DirNames == {<<"A">>, <<"a">>, <<"b">>}

\* the lists of up to MaxDirs different folder names, in any listing order
DirNameLists ==
    {l \in UNION {[1..n -> DirNames] : n \in 0..MaxDirs} :
        \A i, j \in 1..Len(l) : i # j => l[i] # l[j]}

\* the markdown files of a topic: none, one, two whose names give the same
\* slug, two apart of which one has a title of its own
FileListings ==
    {<<>>,
     <<FileItem(<<"A">> \o DotMd, <<>>)>>,
     <<FileItem(<<"A">> \o DotMd, <<>>), FileItem(<<"a">> \o DotMd, <<>>)>>,
     <<FileItem(<<"b">> \o DotMd, <<"A">>), FileItem(<<"A">> \o DotMd, <<>>)>>}

\* the _meta.json files: none, not JSON, null, and objects with and without
\* name and order
MetaFiles ==
    {NoMeta,
     MetaFile("garbage", FALSE, <<>>, FALSE, 0),
     MetaFile("null", FALSE, <<>>, FALSE, 0),
     MetaFile("object", FALSE, <<>>, FALSE, 0),
     MetaFile("object", TRUE, <<"c">>, FALSE, 0),
     MetaFile("object", FALSE, <<>>, TRUE, 1),
     MetaFile("object", TRUE, <<"c">>, TRUE, 0)}

\* the _meta.json of the folders after the first of a listing
PlainMeta == MetaFile("object", TRUE, <<"b">>, TRUE, 2)

\* the listing of a directory: its _meta.json when it has one, then the rest
WithMetaFile(meta, listing) ==
    IF meta.kind = "absent" THEN listing
    ELSE <<FileItem(<<"_", "m", "e", "t", "a", ".", "j", "s", "o", "n">>,
                    <<>>)>> \o listing

\* the listing of content/ with the skill folders `skillNames`, each with the
\* topic folders `topicNames`, each with the files `files`; the first skill
\* has the _meta.json `skillMeta` and the first topic of a skill `topicMeta`
TreeOf(skillNames, skillMeta, topicNames, topicMeta, files) ==
    LET topicDirs ==
            [j \in 1..Len(topicNames) |->
                LET meta == IF j = 1 THEN topicMeta ELSE PlainMeta
                IN  DirItem(topicNames[j], meta, WithMetaFile(meta, files))]
    IN  [i \in 1..Len(skillNames) |->
            LET meta == IF i = 1 THEN skillMeta ELSE PlainMeta
            IN  DirItem(skillNames[i], meta, WithMetaFile(meta, topicDirs))]

ContentDirs ==
    {TreeOf(skillNames, skillMeta, topicNames, topicMeta, files) :
        skillNames \in DirNameLists, skillMeta \in MetaFiles,
        topicNames \in DirNameLists, topicMeta \in MetaFiles,
        files \in FileListings}

outsideBuild ==
    <<routerVars, navigationVars, appVars, searchVars, panelVars, themeVars,
      tocVars>>

InitBuild ==
    /\ contentDir \in ContentDirs
    /\ built = NotBuilt
    /\ RouterIdle
    /\ NavigationIdle
    /\ AppIdle
    /\ SearchIdle
    /\ PanelIdle
    /\ ThemeIdle
    /\ TocIdle
    /\ lastOp = "init"

\* node build.js: main calls generateManifest
Build ==
    /\ ~built.ran
    /\ built' = generateManifest(contentDir)
    /\ lastOp' = "build"
    /\ UNCHANGED <<contentDir, outsideBuild>>

NextBuild == Build

SpecBuild == InitBuild /\ [][NextBuild]_vars

\* no two entries of the list share a slug
UniqueSlugs(list) ==
    \A i, j \in 1..Len(list) : i # j => list[i].slug # list[j].slug

\* the slugs of the manifest are unique within their parent scope
ManifestSlugsUnique ==
    /\ UniqueSlugs(built.skills)
    /\ \A i \in 1..Len(built.skills) :
           /\ UniqueSlugs(built.skills[i].topics)
           /\ \A j \in 1..Len(built.skills[i].topics) :
                  UniqueSlugs(built.skills[i].topics[j].articles)

\* C16: for every content directory, the manifest generateManifest produces
\* has slugs unique within their parent scope: among the skills, among the
\* topics of a skill, among the articles of a topic.
C16_SlugsUnique == built.ran /\ ~built.threw => ManifestSlugsUnique

\* no two names of the listing, the hidden ones aside, give the same slug
SlugsApart(listing) ==
    \A i, j \in 1..Len(listing) :
        (/\ i # j
         /\ ~hiddenOrMeta(listing[i].name)
         /\ ~hiddenOrMeta(listing[j].name))
        => toSlug(listing[i].name) # toSlug(listing[j].name)

\* ... in content/, in every skill folder and in every topic folder
AllSlugsApart ==
    /\ SlugsApart(contentDir)
    /\ \A i \in 1..Len(contentDir) :
           /\ SlugsApart(contentDir[i].items)
           /\ \A j \in 1..Len(contentDir[i].items) :
                  SlugsApart(contentDir[i].items[j].items)

\* C16, amended: for every content directory in which no two sibling names
\* give the same slug under toSlug, the manifest has slugs unique within
\* their parent scope.
C16_SlugsUniqueWhenNamesApart ==
    built.ran /\ ~built.threw /\ AllSlugsApart => ManifestSlugsUnique

\* a manifest of two skills, two topics each, two articles each, from
\* names that give different slugs
C16_Witness ==
    /\ built.ran
    /\ ~built.threw
    /\ AllSlugsApart
    /\ Len(built.skills) = 2
    /\ Len(built.skills[1].topics) = 2
    /\ Len(built.skills[1].topics[1].articles) = 2

\* the display name of the folder names of the model
DerivedName(folder) ==
    CASE folder = <<"b">> -> <<"B">>
      [] OTHER -> <<"A">>

\* the _meta.json gives no name, no order
LacksName(meta) == meta.kind # "object" \/ ~meta.hasName

LacksOrder(meta) == meta.kind # "object" \/ ~meta.hasOrder

\* the directory of the listing with the folder name of the entry
DirOfEntry(listing, entry) ==
    CHOOSE k \in 1..Len(listing) :
        listing[k].isDir /\ listing[k].name = entry.folder

\* an entry made from a _meta.json without name has the name derived from
\* the folder name, one made without order has the order 999
DefaultsFilled(listing, entries) ==
    \A e \in 1..Len(entries) :
        LET meta == listing[DirOfEntry(listing, entries[e])].meta IN
        /\ LacksName(meta) => entries[e].name = DerivedName(entries[e].folder)
        /\ LacksOrder(meta) => entries[e].order = 999
        /\ meta = PlainMeta =>
               entries[e].name = <<"b">> /\ entries[e].order = 2

\* C20: a malformed _meta.json is never fatal: generateManifest completes
\* for every content directory, whatever the _meta.json files hold; an
\* entry whose _meta.json is unparseable or without name or order has the
\* name derived from the folder name and the order 999, and the entries of
\* the other folders are what their own _meta.json says.
C20_MalformedMetaNotFatal ==
    built.ran =>
        /\ ~built.threw
        /\ DefaultsFilled(contentDir, built.skills)
        /\ \A i \in 1..Len(built.skills) :
               DefaultsFilled(
                   contentDir[DirOfEntry(contentDir, built.skills[i])].items,
                   built.skills[i].topics)

\* an entry whose _meta.json parses and holds an order has that order, and
\* only an entry whose _meta.json holds none has the default
OrdersUsed(listing, entries) ==
    \A e \in 1..Len(entries) :
        LET meta == listing[DirOfEntry(listing, entries[e])].meta IN
        /\ ~LacksOrder(meta) => entries[e].order = meta.order
        /\ entries[e].order = DefaultOrder => LacksOrder(meta)

\* the entries are in ascending order of (order, name)
SortedByOrderName(entries) ==
    \A i, j \in 1..Len(entries) :
        i < j =>
            \/ entries[i].order < entries[j].order
            \/ /\ entries[i].order = entries[j].order
               /\ localeCompare(entries[i].name, entries[j].name) <= 0

\* C30: an order given in _meta.json is the order used: for every skill or
\* topic folder whose _meta.json parses and holds a numeric order n (0
\* included) the entry's order is n, the default 999 is used only when the
\* order is absent, and skills and topics are sorted ascending by
\* (order, name).
C30_GivenOrderUsed ==
    built.ran /\ ~built.threw =>
        /\ OrdersUsed(contentDir, built.skills)
        /\ SortedByOrderName(built.skills)
        /\ \A i \in 1..Len(built.skills) :
               /\ OrdersUsed(
                      contentDir[DirOfEntry(contentDir, built.skills[i])].items,
                      built.skills[i].topics)
               /\ SortedByOrderName(built.skills[i].topics)

(***************************************************************************)
(* SpecKeys: App from its construction on, under the keys T, B, '/' and    *)
(* Escape, clicks on the theme and menu buttons and the overlay, focus     *)
(* moves and window resizes; the preference store holds what an earlier    *)
(* visit or another page of the origin left under 'theme'.                 *)
(***************************************************************************)

Dark == <<"d", "a", "r", "k">>

Light == <<"l", "i", "g", "h", "t">>

\* what localStorage.getItem('theme') can return: null, the two names the
\* application writes, an empty string, a name it does not know
StoredThemes == {Null, Dark, Light, <<>>, <<"b", "l", "u", "e">>}

\* the text the browser restored into the search input
RestoredTexts == {<<>>, <<"b", "a">>}

KeyNames == {"t", "T", "b", "B", "/", "Escape", "x"}

KeyTargets == FocusTargets \cup {"textarea"}

\* the variables no step of SpecKeys changes
outsideKeys ==
    <<fragment, navArgs, lookup, articlePath, hashchanges, tocVars, buildVars>>

\* what the rest of App.init sets once navigation.init() has settled
bootVars == <<currentRoute, manifest, onRouteChange, rendererVars>>

\* e.key.toLowerCase(), on the keys the model uses
keyLower(key) ==
    CASE key = "T" -> "t"
      [] key = "Escape" -> "escape"
      [] OTHER -> LowerChar(key)

\* toggleTheme: currentTheme === 'dark' ? 'light' : 'dark'
newTheme(currentTheme) == IF currentTheme = Dark THEN Light ELSE Dark

\* loadTheme: savedTheme || (prefersDark ? 'dark' : 'light')
savedOrPreferred(savedTheme, prefers) ==
    IF Truthy(savedTheme) THEN savedTheme
    ELSE IF prefers THEN Dark ELSE Light

\* App.loadTheme
loadTheme ==
    /\ theme' = savedOrPreferred(storedTheme, prefersDark)
    /\ UNCHANGED storedTheme

toggleThemeNoStore ==
    /\ theme' = newTheme(theme)
    /\ UNCHANGED storedTheme

\* App.toggleTheme
toggleTheme ==
    /\ theme' = newTheme(theme)
    /\ storedTheme' = newTheme(theme)

\* App.toggleMobileMenu
toggleMobileMenu ==
    /\ sidebarActive' = ~sidebarActive
    /\ overlayActive' = ~overlayActive
    /\ bodyLocked' = sidebarActive'

\* App.toggleSidebar, with toggleDesktopSidebar
toggleSidebar ==
    IF ~wide
    THEN toggleMobileMenu /\ UNCHANGED collapsed
    ELSE collapsed' = ~collapsed /\ UNCHANGED menuVars

appHandleKeydownAnyTarget(key, target) ==
    CASE keyLower(key) = "t" ->
            /\ toggleTheme
            /\ calls' = <<Call("toggleTheme", Null)>>
            /\ UNCHANGED <<collapsed, menuVars>>
      [] keyLower(key) = "b" ->
            /\ toggleSidebar
            /\ calls' = <<Call("toggleSidebar", Null)>>
            /\ UNCHANGED <<theme, storedTheme>>
      [] OTHER ->
            /\ calls' = <<>>
            /\ UNCHANGED <<theme, storedTheme, collapsed, menuVars>>

\* App.handleKeydown(e), e.key being `key` and e.target `target`
appHandleKeydown(key, target) ==
    IF elementTag(target) = "INPUT" \/ elementTag(target) = "TEXTAREA"
    THEN /\ calls' = <<>>
         /\ UNCHANGED <<theme, storedTheme, collapsed, menuVars>>
    ELSE CASE keyLower(key) = "t" ->
                 /\ toggleTheme
                 /\ calls' = <<Call("toggleTheme", Null)>>
                 /\ UNCHANGED <<collapsed, menuVars>>
           [] keyLower(key) = "b" ->
                 /\ toggleSidebar
                 /\ calls' = <<Call("toggleSidebar", Null)>>
                 /\ UNCHANGED <<theme, storedTheme>>
           [] OTHER ->
                 /\ calls' = <<>>
                 /\ UNCHANGED <<theme, storedTheme, collapsed, menuVars>>

\* the keydown listeners of Search for `key`: handleKeydown on the input,
\* then the listener of the document
searchKeydown(key) ==
    IF focus = "input" /\ isOpen /\ key = "Escape"
    THEN \* handleKeydown closes and blurs; the document listener then
         \* finds the panel closed
         /\ close
         /\ inputBlur
         /\ UNCHANGED <<searchArticles, inputValue, query, found>>
    ELSE IF key = "/" /\ ~isInputFocused
    THEN \* input.focus(), and with it the focus event
         /\ focus' = "input"
         /\ handleFocusPanel
         /\ UNCHANGED <<inputValue, blurTimers>>
    ELSE IF key = "Escape" /\ isOpen
    THEN \* close; input.blur() on an input without focus does nothing
         /\ close
         /\ UNCHANGED <<searchArticles, inputValue, query, found, panelVars>>
    ELSE UNCHANGED <<searchVars, panelVars>>

InitKeys ==
    /\ RouterIdle
    /\ NavigationIdle
    /\ phase = "start"
    /\ onRouteChange = FALSE
    /\ hashchanges = 0
    /\ container = EmptyContainer
    /\ currentPath = Null
    /\ fetches = {}
    /\ loadCount = 0
    /\ tocSource = 0
    /\ sidebarActive = FALSE
    /\ overlayActive = FALSE
    /\ bodyLocked = FALSE
    /\ calls = <<>>
    /\ searchArticles = <<>>
    /\ inputValue \in RestoredTexts
    /\ query = <<>>
    /\ found = <<>>
    /\ items = <<>>
    /\ isOpen = FALSE
    /\ activeIndex = -1
    /\ PanelIdle
    /\ theme = Null
    /\ storedTheme \in StoredThemes
    /\ prefersDark \in BOOLEAN
    /\ collapsed = FALSE
    /\ wide \in BOOLEAN
    /\ TocIdle
    /\ BuildIdle
    /\ lastOp = "construct"

\* App.init up to the await of navigation.init(): loadTheme, then the
\* components are built and Search installs its listeners
LoadTheme ==
    /\ phase = "start"
    /\ phase' = "manifest"
    /\ loadTheme
    /\ calls' = <<Call("loadTheme", Null)>>
    /\ lastOp' = "loadTheme"
    /\ UNCHANGED <<bootVars, menuVars, searchVars, panelVars, prefersDark,
                   collapsed, wide, outsideKeys>>

\* the rest of App.init once navigation.init() has settled: the search
\* index is set, the callback and the listeners of App are installed and
\* the initial route is handled
ListenersInstalled ==
    /\ phase = "manifest"
    /\ phase' = "ready"
    /\ manifest' = AppManifest
    /\ searchArticles' = PanelIndex
    /\ onRouteChange' = TRUE
    /\ handleRoute("init", fragment, TRUE, AppManifest)
    /\ lastOp' = "initialRoute"
    /\ UNCHANGED <<inputValue, query, found, items, isOpen, activeIndex,
                   panelVars, themeVars, outsideKeys>>

\* a key goes down, its target being the element that has focus: the
\* listeners of Search, then App.handleKeydown once it is installed
Keydown(key) ==
    /\ phase # "start"
    /\ TimerRoom
    /\ searchKeydown(key)
    /\ IF phase = "ready"
       THEN appHandleKeydown(key, focus)
       ELSE /\ calls' = <<>>
            /\ UNCHANGED <<theme, storedTheme, collapsed, menuVars>>
    /\ lastOp' = key
    /\ UNCHANGED <<phase, bootVars, prefersDark, wide, outsideKeys>>

\* a click on the theme button: the mouse button takes focus from the
\* input, the click listener of the document closes the panel, and the
\* listener of the button runs toggleTheme
ClickThemeToggle ==
    /\ phase = "ready"
    /\ TimerRoom
    /\ loseFocusTo("body")
    /\ close
    /\ toggleTheme
    /\ calls' = <<Call("toggleTheme", Null)>>
    /\ lastOp' = "clickTheme"
    /\ UNCHANGED <<phase, bootVars, menuVars, searchArticles, inputValue,
                   query, found, prefersDark, collapsed, wide, outsideKeys>>

\* a click on the menu button: toggleMobileMenu
ClickMenuToggle ==
    /\ phase = "ready"
    /\ TimerRoom
    /\ loseFocusTo("body")
    /\ close
    /\ toggleMobileMenu
    /\ calls' = <<Call("toggleMobileMenu", Null)>>
    /\ lastOp' = "clickMenu"
    /\ UNCHANGED <<phase, bootVars, searchArticles, inputValue, query, found,
                   themeVars, outsideKeys>>

\* a click on the overlay, shown while it is active: closeMobileMenu
ClickOverlay ==
    /\ phase = "ready"
    /\ overlayActive
    /\ TimerRoom
    /\ loseFocusTo("body")
    /\ close
    /\ closeMobileMenu
    /\ calls' = <<Call("closeMobileMenu", Null)>>
    /\ lastOp' = "clickOverlay"
    /\ UNCHANGED <<phase, bootVars, searchArticles, inputValue, query, found,
                   themeVars, outsideKeys>>

\* the window is resized across the 900 px mark: App.handleResize once it
\* is installed
Resize ==
    /\ phase # "start"
    /\ wide' = ~wide
    /\ IF phase = "ready" /\ wide'
       THEN closeMobileMenu
       ELSE UNCHANGED menuVars
    /\ calls' = <<>>
    /\ lastOp' = "resize"
    /\ UNCHANGED <<phase, bootVars, searchVars, panelVars, theme, storedTheme,
                   prefersDark, collapsed, outsideKeys>>

\* focus moves to another element (Tab, or a click in a field): the focus
\* event of the search input, or its blur event
KeysFocusMoves(to) ==
    /\ phase # "start"
    /\ to # focus
    /\ TimerRoom
    /\ IF to = "input"
       THEN /\ focus' = "input"
            /\ handleFocusPanel
            /\ UNCHANGED <<inputValue, blurTimers>>
       ELSE /\ loseFocusTo(to)
            /\ UNCHANGED searchVars
    /\ calls' = <<>>
    /\ lastOp' = "focusMoves"
    /\ UNCHANGED <<phase, bootVars, menuVars, themeVars, outsideKeys>>

\* a timer of handleBlur fires
KeysTimerFires ==
    /\ blurTimers > 0
    /\ blurTimers' = blurTimers - 1
    /\ IF focus # "results"
       THEN close
       ELSE UNCHANGED <<items, isOpen, activeIndex>>
    /\ calls' = <<>>
    /\ lastOp' = "timer"
    /\ UNCHANGED <<phase, bootVars, menuVars, searchArticles, inputValue,
                   query, found, focus, themeVars, outsideKeys>>

NextKeys ==
    \/ LoadTheme
    \/ ListenersInstalled
    \/ \E key \in KeyNames : Keydown(key)
    \/ ClickThemeToggle
    \/ ClickMenuToggle
    \/ ClickOverlay
    \/ Resize
    \/ \E to \in KeyTargets : KeysFocusMoves(to)
    \/ KeysTimerFires

SpecKeys == InitKeys /\ [][NextKeys]_vars

FormFieldTags == {"INPUT", "TEXTAREA"}

\* the classes of the sidebar and the overlay
sidebarClasses == <<collapsed, sidebarActive, overlayActive>>

\* C18: a keydown of T or B whose target is an INPUT or TEXTAREA leaves the
\* theme attribute, the stored theme and the sidebar classes unchanged, and
\* a keydown of '/' while an input or textarea has focus leaves focus where
\* it is; with no form field focused, '/' focuses the search input and,
\* once App has installed its listeners, T flips the theme and B toggles
\* the sidebar (the mobile menu up to 900 px, the collapsed class above).
C18_ShortcutsSuppressedWhileTyping ==
    [][lastOp' \in KeyNames =>
          IF elementTag(focus) \in FormFieldTags
          THEN /\ keyLower(lastOp') \in {"t", "b"} =>
                      /\ theme' = theme
                      /\ storedTheme' = storedTheme
                      /\ sidebarClasses' = sidebarClasses
               /\ lastOp' = "/" => focus' = focus
          ELSE /\ lastOp' = "/" => focus' = "input"
               /\ phase = "ready" /\ keyLower(lastOp') = "t" =>
                      /\ theme' # theme
                      /\ theme' \in {Dark, Light}
                      /\ sidebarClasses' = sidebarClasses
               /\ phase = "ready" /\ keyLower(lastOp') = "b" =>
                      /\ theme' = theme
                      /\ IF wide
                         THEN /\ collapsed' = ~collapsed
                              /\ sidebarActive' = sidebarActive
                         ELSE /\ sidebarActive' = ~sidebarActive
                              /\ collapsed' = collapsed
      ]_vars

\* T went down in a textarea with every listener installed, and nothing was
\* toggled
C18_Witness ==
    /\ lastOp = "T"
    /\ phase = "ready"
    /\ focus = "textarea"
    /\ calls = <<>>
    /\ theme = Light
    /\ storedTheme = Null

toggleThemeRan == calls = <<Call("toggleTheme", Null)>>

MenuFragments ==
    {<<>>, <<"/", "a", "/", "b", "-", "c", "/", "a">>,
     <<"/", "a", "/", "b", "-", "c", "/", "c">>}

InitMenu ==
    /\ fragment \in MenuFragments
    /\ currentRoute = NoRoute
    /\ navArgs = NoArgs
    /\ NavigationIdle
    /\ AppIdle
    /\ SearchIdle
    /\ PanelIdle
    /\ theme = Null
    /\ storedTheme = Null
    /\ prefersDark = FALSE
    /\ collapsed = FALSE
    /\ wide \in BOOLEAN
    /\ TocIdle
    /\ BuildIdle
    /\ lastOp = "open"

\* what the menu actions leave alone
outsideMenu ==
    <<routerVars, navigationVars, phase, onRouteChange, hashchanges,
      rendererVars, searchVars, panelVars, theme, storedTheme, prefersDark,
      tocVars, buildVars>>

\* a click on the menu button: App.toggleMobileMenu
MenuButtonClick ==
    /\ phase = "ready"
    /\ toggleMobileMenu
    /\ calls' = <<Call("toggleMobileMenu", Null)>>
    /\ lastOp' = "toggleMobileMenu"
    /\ UNCHANGED <<collapsed, wide, outsideMenu>>

\* a click on the overlay, shown while it is active: App.closeMobileMenu
OverlayClick ==
    /\ phase = "ready"
    /\ overlayActive
    /\ closeMobileMenu
    /\ calls' = <<Call("closeMobileMenu", Null)>>
    /\ lastOp' = "closeMobileMenu"
    /\ UNCHANGED <<collapsed, wide, outsideMenu>>

\* the B key with the focus outside a form field: App.toggleSidebar, which
\* is toggleMobileMenu up to 900 px and toggleDesktopSidebar above
SidebarKey ==
    /\ phase = "ready"
    /\ toggleSidebar
    /\ calls' = <<Call("toggleSidebar", Null)>>
    /\ lastOp' = "toggleSidebar"
    /\ UNCHANGED <<wide, outsideMenu>>

\* the window is resized, ending wider than 900 px or not: App.handleResize
\* once it is installed
WindowResize(toWide) ==
    /\ wide' = toWide
    /\ IF phase = "ready" /\ toWide
       THEN closeMobileMenu
       ELSE UNCHANGED menuVars
    /\ calls' = <<>>
    /\ lastOp' = "resize"
    /\ UNCHANGED <<collapsed, outsideMenu>>

NextMenu ==
    \/ ManifestLoaded
    \/ \E f \in MenuFragments : UserNavigates(f)
    \/ HashChange
    \/ \E f \in fetches, ok \in BOOLEAN : FetchSettles(f, ok)
    \/ MenuButtonClick
    \/ OverlayClick
    \/ SidebarKey
    \/ \E toWide \in BOOLEAN : WindowResize(toWide)

SpecMenu == InitMenu /\ [][NextMenu]_vars

\* the sidebar, the overlay and the scroll lock of the body are all off
MenuOff == ~sidebarActive /\ ~overlayActive /\ ~bodyLocked

\* C29: the mobile menu stays consistent: from a sidebar and an overlay
\* both inactive, through toggleMobileMenu, closeMobileMenu, toggleSidebar,
\* toggleDesktopSidebar, handleResize and route changes, the sidebar is
\* active exactly when the overlay is active and exactly when the body is
\* locked; after handleResize at a width above 900 px and after a route
\* that resolved to an article all three are off.
C29_MenuConsistent ==
    [][/\ sidebarActive = overlayActive /\ overlayActive = bodyLocked
       /\ sidebarActive' = overlayActive' /\ overlayActive' = bodyLocked'
       /\ lastOp' = "resize" /\ phase = "ready" /\ wide' => MenuOff'
       /\ (/\ lastOp' \in {"hashchange", "initialRoute"}
           /\ onRouteChange'
           /\ RouteDecision(manifest', currentRoute').op = "load")
          => MenuOff'
      ]_vars

\* a route that resolved to an article was handled in a narrow window
\* whose sidebar the B key had collapsed before it was narrowed; the menu
\* is closed and a fetch is in flight
C29_Witness ==
    /\ lastOp = "hashchange"
    /\ RouteDecision(manifest, currentRoute).op = "load"
    /\ MenuOff
    /\ ~wide
    /\ collapsed
    /\ fetches # {}

====
